---- MODULE Spec2Model ----
(***************************************************************************)
(* PaperSynth AI: the fetch -> analyze -> aggregate -> report pipeline of  *)
(* main.py (run_papersynth_pipeline) and the Gemini adapter of             *)
(* src/tools/gemini_tool.py (GeminiTool._run, _analyze_single_paper).      *)
(*                                                                         *)
(* Python values are modelled as follows.                                  *)
(*  - a str used as a label is a TLA+ string; a str used as text (a        *)
(*    service response) is a sequence of one-character strings, in which   *)
(*    one element may be a lexeme standing for a whole JSON document;      *)
(*  - a JSON value inside an analysis is a tagged record (PyStr, PyInt,    *)
(*    PyList), a dict is a function from its keys to such values;          *)
(*  - Optional[Dict] is a sequence of length 0 (None) or 1;               *)
(*  - an ordered dict (dict(Counter.most_common())) is a sequence of       *)
(*    <<key, count>> pairs.                                                *)
(* File writes are taken to succeed: main() creates data/, outputs/ and    *)
(* logs/ (setup_directories) before the pipeline runs.                     *)
(***************************************************************************)
EXTENDS Integers, Sequences, FiniteSets, TLC

VARIABLES
    entry,          \* what was invoked: "pipeline" (run_papersynth_pipeline),
                    \* "aggregate" (its steps 3 and 4, from an analysed collection),
                    \* "tool" (GeminiTool._run), "single" (_analyze_single_paper),
                    \* "trend" (TrendTool._run), "normalize" (the two
                    \* papers_processor functions on one search result),
                    \* "arxiv" (ArxivTool._run), "setup" (GeminiTool()),
                    \* "factory" (AgentFactory._create_tool_instances),
                    \* "batch" (ContentAnalyzerAgent.analyze_batch),
                    \* "crew" (CrewManager.execute_crew)
    pc,             \* position of the invoked function
    papers,         \* main.py: papers (the fetched list)
    fetch_status,   \* main.py: papers_data["status"]
    gemini_model,   \* GeminiTool._gemini_model is not None
    batch_i,        \* main.py: i of "for i in range(0, len(papers), batch_size)"
    all_analyses,   \* main.py: all_analyses
    run_papers,     \* GeminiTool._run: papers (the batch)
    run_idx,        \* GeminiTool._run: number of loop iterations done
    results,        \* GeminiTool._run: results
    run_out,        \* GeminiTool._run: the returned JSON object
    run_log,        \* per paper of the current _run call: what happened
    run_delays,     \* time.sleep calls of the current _run call
    search_calls,   \* calls of ArxivTool._run in this run
    service_calls,  \* calls of generate_content in this run
    tool_calls,     \* calls of GeminiTool._run in this run
    adapter_results,\* results _analyze_single_paper returned in this run
    paced,          \* a delay was executed since the last service call
    unpaced,        \* two consecutive service calls happened with no delay between
    written,        \* artifacts written so far, in order
    report,         \* main.py: report (<<>> until built)
    retval,         \* return value of run_papersynth_pipeline
    raised,         \* where the pipeline's try block raised ("" when it did not)
    use_urls,       \* GeminiTool._run: use_urls
    sp_paper,       \* _analyze_single_paper: paper
    sp_svc,         \* _analyze_single_paper: what the service did
    sp_result,      \* _analyze_single_paper: returned value
    trend_out,      \* TrendTool._run: returned value
    markdown,       \* main.py: content of the Markdown report (<<>> until written)
    raw_result,     \* a raw search result handed to the normalizers
    tool_record,    \* ArxivTool._papers_processor: the paper built from it
    fetcher_record, \* paperFetcher.papers_processor: the paper built from it
    arxiv_in,       \* ArxivTool._run: what the client and the search do
    arxiv_out,      \* ArxivTool._run: returned value
    gemini_env,     \* GeminiTool(): the environment it is constructed in
    factory_in,     \* _create_tool_instances: tool_names, and the tools that raise
    factory_out,    \* _create_tool_instances: returned list
    summary,        \* main.py: content of the run summary (<<>> until written)
    batch_in,       \* analyze_batch: what the service does for each paper
    batch_out,      \* analyze_batch: returned list, or the exception it raised
    crew_in,        \* execute_crew: crew_name, and what create_crew, kickoff and the write do
    crew_out        \* execute_crew: what it raised, returned and wrote

vars == <<entry, pc, papers, fetch_status, gemini_model, batch_i, all_analyses,
          run_papers, run_idx, results, run_out, run_log, run_delays,
          search_calls, service_calls, tool_calls, adapter_results, paced, unpaced, written,
          report, retval, raised, use_urls, sp_paper, sp_svc, sp_result,
          trend_out, markdown, raw_result, tool_record, fetcher_record,
          arxiv_in, arxiv_out, gemini_env, factory_in, factory_out,
          summary, batch_in, batch_out, crew_in, crew_out>>

-----------------------------------------------------------------------------
(* Bounds and program constants *)

\* papers a search returns (max_results is 15 in main.py)
MaxPapers == 6
\* papers handed to GeminiTool._run when called directly
MaxToolPapers == 3
\* papers of a collection handed to the aggregation
MaxAggPapers == 3
\* papers of a pipeline run whose service response is drawn from PipelineTexts
MaxVaried == 3
\* seconds that may pass between assembling the report and rendering the Markdown
MaxElapsed == 1
\* raw results a search hands to ArxivTool._run when called directly
MaxResults == 3
\* tool names handed to AgentFactory._create_tool_instances
MaxToolNames == 3
\* papers handed to ContentAnalyzerAgent.analyze_batch
MaxBatchPapers == 3
batch_size == 5
SampleSize == 5
MaxAuthors == 3
TopKeywords == 15

-----------------------------------------------------------------------------
(* Python values *)

PyStr(s)  == [t |-> "str",  s |-> s,  n |-> 0, l |-> <<>>]
PyText(x) == [t |-> "str",  s |-> "", n |-> 0, l |-> x]
PyInt(n)  == [t |-> "int",  s |-> "", n |-> n, l |-> <<>>]
PyList(l) == [t |-> "list", s |-> "", n |-> 0, l |-> l]

EmptyDict == [k \in {} |-> 0]
JsonObject(d) == [isdict |-> TRUE,  d |-> d]
JsonScalar    == [isdict |-> FALSE, d |-> EmptyDict]

StructuredFields == {"ai_subcategory", "methodology", "key_contribution",
                     "technical_keywords", "novelty_score",
                     "practical_applications"}
DiagnosticFields == {"raw_response", "parse_error"}

\* The object the prompt asks for (gemini_tool.py:115-123).
FullAnalysis(cat, meth, kws, score) ==
    ("ai_subcategory" :> PyStr(cat)) @@ ("methodology" :> PyStr(meth)) @@
    ("key_contribution" :> PyStr("contribution")) @@
    ("technical_keywords" :> PyList(kws)) @@ ("novelty_score" :> PyInt(score)) @@
    ("practical_applications" :> PyList(<<"app">>)) @@
    ("limitations" :> PyList(<<"lim">>))

-----------------------------------------------------------------------------
(* Text: str.strip, str.startswith, str.endswith, slicing *)

Whitespace == {" "}

RECURSIVE LStrip(_)
LStrip(s) == IF s # <<>> /\ Head(s) \in Whitespace THEN LStrip(Tail(s)) ELSE s

RECURSIVE RStrip(_)
RStrip(s) == IF s # <<>> /\ s[Len(s)] \in Whitespace
             THEN RStrip(SubSeq(s, 1, Len(s) - 1)) ELSE s

Strip(s) == RStrip(LStrip(s))

StartsWith(s, p) == Len(s) >= Len(p) /\ SubSeq(s, 1, Len(p)) = p
EndsWith(s, p)   == Len(s) >= Len(p) /\ SubSeq(s, Len(s) - Len(p) + 1, Len(s)) = p
DropFirst(s, k)  == SubSeq(s, k + 1, Len(s))
DropLast(s, k)   == SubSeq(s, 1, Len(s) - k)

Backtick  == "bq"        \* the grave accent character, U+0060
FenceJson == <<Backtick, Backtick, Backtick, "j", "s", "o", "n">>
Fence     == <<Backtick, Backtick, Backtick>>

\* gemini_tool.py:133-140
CleanResponse(text) ==
    LET t1 == Strip(text)
        t2 == IF StartsWith(t1, FenceJson) THEN DropFirst(t1, Len(FenceJson)) ELSE t1
        t3 == IF EndsWith(t2, Fence) THEN DropLast(t2, Len(Fence)) ELSE t2
    IN  Strip(t3)

-----------------------------------------------------------------------------
(* JSON documents the service may answer with, each one lexeme of a text *)

\* Two keyword lists of nine keywords each, with "k09" in both, and a list
\* of fourteen of their keywords.
ManyKeywordsA == <<"k01", "k02", "k03", "k04", "k05", "k06", "k07", "k08", "k09">>
ManyKeywordsB == <<"k09", "k10", "k11", "k12", "k13", "k14", "k15", "k16", "k17">>
ManyKeywordsC == <<"k01", "k02", "k03", "k04", "k05", "k06", "k07", "k08",
                   "k10", "k11", "k12", "k13", "k14", "k15">>

JsonDocs ==
    ("{NLP6}"  :> JsonObject(FullAnalysis("NLP", "Transformer", <<"attention", "llm">>, 6))) @@
    ("{NLP8}"  :> JsonObject(FullAnalysis("NLP", "Transformer", <<"llm">>, 8))) @@
    ("{CV9}"   :> JsonObject(FullAnalysis("CV", "CNN", <<"vision", "attention">>, 9))) @@
    ("{RL5}"   :> JsonObject(FullAnalysis("RL", "Q-learning", ManyKeywordsA, 5))) @@
    ("{ML4}"   :> JsonObject(FullAnalysis("ML", "Boosting", ManyKeywordsB, 4))) @@
    ("{RL7}"   :> JsonObject(FullAnalysis("RL", "Q-learning", ManyKeywordsC, 7))) @@
    ("{}"      :> JsonObject(EmptyDict)) @@
    ("{part}"  :> JsonObject(("ai_subcategory" :> PyStr("RL")) @@
                             ("novelty_score" :> PyStr("high")))) @@
    ("{mixed}" :> JsonObject(("ai_subcategory" :> PyStr("ML")) @@
                             ("raw_response" :> PyStr("echo")))) @@
    ("{cats}"  :> JsonObject(("ai_subcategory" :> PyList(<<"NLP", "CV">>)) @@
                             ("methodology" :> PyStr("Survey")))) @@
    ("42"      :> JsonScalar)

\* json.loads: one document, surrounded by optional whitespace; anything else
\* raises json.JSONDecodeError.
JsonLoads(text) ==
    LET body == Strip(text)
    IN  IF Len(body) = 1 /\ body[1] \in DOMAIN JsonDocs
        THEN [ok |-> TRUE,  value |-> JsonDocs[body[1]]]
        ELSE [ok |-> FALSE, value |-> JsonScalar]

-----------------------------------------------------------------------------
(* Papers.  A paper is a dict: keys is the set of its keys.  A field the     *)
(* search result lacks is left out of the dict (arxiv_tool.py:97-108); a     *)
(* title that is present is a str.                                           *)

AuthorPool == <<"Ada", "Bob", "Cyd", "Dee">>
AllKeys == {"id", "arxiv_id", "fetched_date", "title", "authors", "summary",
            "primary_category", "ar5iv_url", "arxiv_url"}

Paper(i, keys) ==
    [keys |-> keys, arxiv_id |-> ToString(i), title |-> ToString(i),
     authors |-> SubSeq(AuthorPool, 1, i % (Len(AuthorPool) + 1))]

\* What ArxivTool._run returns for a search result that has every field.
FetchedPapers(n) == <<>> \o [i \in 1..n |-> Paper(i, AllKeys)]

\* dict.get(key, default) for the str fields of a paper
PaperGet(paper, key, default) ==
    IF key \in paper.keys THEN paper[key] ELSE default

-----------------------------------------------------------------------------
(* GeminiTool._analyze_single_paper *)

\* gemini_tool.py:90-126: the prompt subscripts paper['title'] and
\* paper['summary']; a missing key raises KeyError before the service is called.
PromptBuilt(paper) == {"title", "summary"} \subseteq paper.keys

\* What the service does with one request: generate_content raises, or
\* returns a response whose text is svc.text.
ServiceRaises     == [raises |-> TRUE,  text |-> <<>>]
ServiceReturns(x) == [raises |-> FALSE, text |-> x]

\* A fallback that keeps the cleaned text instead of response.text.
ParseFailureResultCleaned(paper, text) ==
    [arxiv_id |-> PaperGet(paper, "arxiv_id", "unknown"),
     title |-> paper.title,
     analysis |-> JsonObject(("raw_response" :> PyText(CleanResponse(text))) @@
                             ("parse_error" :> PyStr("JSONDecodeError"))),
     processed_with_url |-> FALSE]

\* gemini_tool.py:156-164
ParseFailureResult(paper, text) ==
    [arxiv_id |-> PaperGet(paper, "arxiv_id", "unknown"),
     title |-> paper.title,
     analysis |-> JsonObject(("raw_response" :> PyText(text)) @@
                             ("parse_error" :> PyStr("JSONDecodeError"))),
     processed_with_url |-> FALSE]

\* gemini_tool.py:144-149
ParsedResult(paper, value, urls) ==
    [arxiv_id |-> PaperGet(paper, "arxiv_id", "unknown"),
     title |-> paper.title,
     analysis |-> value,
     processed_with_url |-> urls /\ "ar5iv_url" \in paper.keys]

\* An adapter that answers a service exception with a diagnostic result
\* instead of None.
AnalyzeSinglePaperNoSkip(paper, urls, svc) ==
    IF ~PromptBuilt(paper) THEN <<>>
    ELSE IF svc.raises THEN <<ParseFailureResult(paper, <<>>)>>
    ELSE LET parsed == JsonLoads(CleanResponse(svc.text))
         IN  IF parsed.ok
             THEN <<ParsedResult(paper, parsed.value, urls)>>
             ELSE <<ParseFailureResult(paper, svc.text)>>

\* gemini_tool.py:84-168.  <<>> is None.
AnalyzeSinglePaper(paper, urls, svc) ==
    IF ~PromptBuilt(paper) \/ svc.raises
    THEN <<>>
    ELSE LET parsed == JsonLoads(CleanResponse(svc.text))
         IN  IF parsed.ok
             THEN <<ParsedResult(paper, parsed.value, urls)>>
             ELSE <<ParseFailureResult(paper, svc.text)>>

\* A delay after every paper, the last included.
DelayAfterEvery(i, n) == i <= n

\* gemini_tool.py:69: "if i < len(papers)", i counting from 1
DelayAfter(i, n) == i < n

-----------------------------------------------------------------------------
(* Trend aggregation, main.py:114-139 *)

Min(a, b) == IF a < b THEN a ELSE b

RECURSIVE FlattenFrom(_, _)
FlattenFrom(ss, i) == IF i > Len(ss) THEN <<>> ELSE ss[i] \o FlattenFrom(ss, i + 1)
Flatten(ss) == FlattenFrom(ss, 1)

RECURSIVE SumFrom(_, _)
SumFrom(s, i) == IF i > Len(s) THEN 0 ELSE s[i] + SumFrom(s, i + 1)
SumSeq(s) == SumFrom(s, 1)

\* F applied to the value of v, v being evaluated once
With(v, F(_)) == CHOOSE r \in {F(x) : x \in {v}} : TRUE

MapSeq(s, F(_)) == <<>> \o [i \in 1..Len(s) |-> F(s[i])]

\* main.py:120: "analysis" in analysis and isinstance(analysis["analysis"], dict)
HasDictAnalysis(a) == a.analysis.isdict

Data(a) == a.analysis.d
HasField(a, k) == HasDictAnalysis(a) /\ k \in DOMAIN Data(a)

\* A tally that counts a result without the field under a default label.
CategoriesDefaulting(as) ==
    MapSeq(SelectSeq(as, HasDictAnalysis),
           LAMBDA a : IF "ai_subcategory" \in DOMAIN Data(a)
                      THEN Data(a)["ai_subcategory"] ELSE PyStr("Unknown"))

\* main.py:123-124
Categories(as) ==
    MapSeq(SelectSeq(as, LAMBDA a : HasField(a, "ai_subcategory")),
           LAMBDA a : Data(a)["ai_subcategory"])

\* main.py:125-126
Keywords(as) ==
    Flatten(MapSeq(SelectSeq(as, LAMBDA a : HasField(a, "technical_keywords")
                                     /\ Data(a)["technical_keywords"].t = "list"),
                   LAMBDA a : MapSeq(Data(a)["technical_keywords"].l, PyStr)))

\* main.py:127-128
Methodologies(as) ==
    MapSeq(SelectSeq(as, LAMBDA a : HasField(a, "methodology")),
           LAMBDA a : Data(a)["methodology"])

\* main.py:129-130
NoveltyScores(as) ==
    MapSeq(SelectSeq(as, LAMBDA a : HasField(a, "novelty_score")
                             /\ Data(a)["novelty_score"].t = "int"),
           LAMBDA a : Data(a)["novelty_score"].n)

\* collections.Counter hashes its elements: a list is unhashable (TypeError).
Hashable(v) == v.t # "list"
CounterRaises(items) == \E i \in 1..Len(items) : ~Hashable(items[i])

CountOf(items, k) == Cardinality({i \in 1..Len(items) : items[i] = k})

\* For every position of items, the number of occurrences of its element.
CountsAt(items) == <<>> \o [i \in 1..Len(items) |-> CountOf(items, items[i])]

\* For every position, whether a key of Counter(items) is first seen there.
FirstSeen(items) ==
    <<>> \o [i \in 1..Len(items) |-> \A j \in 1..(i - 1) : items[j] # items[i]]

\* most_common sorts by count, largest first, and the sort is stable: the
\* place of the key first seen at i is one more than the number of keys with
\* a larger count, or with the same count and seen earlier (0: no key is
\* first seen at i).
Places(cnt, first) ==
    <<>> \o [i \in 1..Len(cnt) |->
               IF first[i]
               THEN 1 + Cardinality({j \in 1..Len(cnt) :
                           /\ first[j]
                           /\ \/ cnt[j] > cnt[i]
                              \/ cnt[j] = cnt[i] /\ j < i})
               ELSE 0]

SortedCounts(items) ==
    With(CountsAt(items), LAMBDA cnt :
      With(Places(cnt, FirstSeen(items)), LAMBDA place :
        <<>> \o [p \in 1..Cardinality({i \in 1..Len(place) : place[i] > 0}) |->
                   LET i == CHOOSE i \in 1..Len(place) : place[i] = p
                   IN  <<items[i], cnt[i]>>]))

\* dict(Counter(items).most_common()): <<key, count>> pairs in dict order
MostCommon(items) == With(items, SortedCounts)

\* The first n keys in the order they were first seen, with their counts.
FirstSeenN(items, n) ==
    LET seen == SelectSeq(<<>> \o [i \in 1..Len(items) |-> i],
                          LAMBDA i : \A j \in 1..(i - 1) : items[j] # items[i])
    IN  MapSeq(SubSeq(seen, 1, Min(n, Len(seen))),
               LAMBDA i : <<items[i], CountOf(items, items[i])>>)

\* dict(Counter(items).most_common(n))
MostCommonN(items, n) ==
    LET all == MostCommon(items) IN SubSeq(all, 1, Min(n, Len(all)))

\* A mean kept as a running average: each score is averaged with the mean
\* of the scores before it.
RECURSIVE RunningMean(_, _)
RunningMean(scores, n) ==
    IF n = 0 THEN [num |-> 0, den |-> 1]
    ELSE IF n = 1 THEN [num |-> scores[1], den |-> 1]
    ELSE LET m == RunningMean(scores, n - 1)
         IN  [num |-> m.num + scores[n] * m.den, den |-> 2 * m.den]
MeanRunning(scores) == RunningMean(scores, Len(scores))

\* A mean that divides by the number of scores without testing for none.
MeanUnguarded(scores) == [num |-> SumSeq(scores), den |-> Len(scores)]

\* main.py:137.  A float is kept as the exact fraction num/den.
Mean(scores) ==
    IF scores # <<>> THEN [num |-> SumSeq(scores), den |-> Len(scores)]
    ELSE [num |-> 0, den |-> 1]

\* round(score) of an int score is the score
RoundedScores(scores) == MapSeq(scores, PyInt)

AggregationRaises(as) ==
    CounterRaises(Categories(as)) \/ CounterRaises(Methodologies(as))

\* main.py:133-139
Trends(as) ==
    [ai_categories        |-> MostCommon(Categories(as)),
     top_keywords         |-> MostCommonN(Keywords(as), TopKeywords),
     methodologies        |-> MostCommon(Methodologies(as)),
     avg_novelty_score    |-> Mean(NoveltyScores(as)),
     novelty_distribution |-> MostCommon(RoundedScores(NoveltyScores(as)))]

-----------------------------------------------------------------------------
(* Report assembly, main.py:144-171 *)

\* round-half-even of n/d to an integer.  The f-string rounds the double
\* a/p*100; for p < 16 no quotient lies on a tie, where the two could differ.
RoundHalfEven(n, d) ==
    LET q == n \div d
        r == n % d
    IN  IF 2 * r < d THEN q
        ELSE IF 2 * r > d THEN q + 1
        ELSE IF q % 2 = 0 THEN q ELSE q + 1

RECURSIVE Digits(_)
Digits(n) == IF n < 10 THEN <<ToString(n)>>
             ELSE Append(Digits(n \div 10), ToString(n % 10))

\* f"{(a/p*100):.1f}%"
FormatPercent(a, p) ==
    LET tenths == RoundHalfEven(1000 * a, p)
    IN  Digits(tenths \div 10) \o <<".", ToString(tenths % 10), "%">>

\* A rate that is formatted like any other when nothing was fetched.
SuccessRateFormatted(analyzed, fetched) ==
    IF fetched # <<>> THEN FormatPercent(Len(analyzed), Len(fetched))
    ELSE FormatPercent(0, 1)

\* main.py:154
SuccessRate(analyzed, fetched) ==
    IF fetched # <<>> THEN FormatPercent(Len(analyzed), Len(fetched))
    ELSE <<"0", "%">>

\* A choice that keeps the last of the largest counts.
DominantCategoryLast(cats) ==
    IF cats # <<>>
    THEN LET best == CHOOSE i \in 1..Len(cats) :
                        /\ \A j \in 1..Len(cats) : cats[j][2] <= cats[i][2]
                        /\ \A j \in (i + 1)..Len(cats) : cats[j][2] < cats[i][2]
         IN  cats[best][1]
    ELSE PyStr("Unknown")

\* main.py:158: max(items, key=count)[0] keeps the first of the largest
DominantCategory(cats) ==
    IF cats # <<>>
    THEN LET best == CHOOSE i \in 1..Len(cats) :
                        /\ \A j \in 1..Len(cats) : cats[j][2] <= cats[i][2]
                        /\ \A j \in 1..(i - 1) : cats[j][2] < cats[i][2]
         IN  cats[best][1]
    ELSE PyStr("Unknown")

HighAbove == 7
MediumAbove == 5

\* Buckets whose lower bounds are inclusive.
InnovationLevelInclusive(avg) ==
    IF avg.num >= HighAbove * avg.den THEN "High"
    ELSE IF avg.num >= MediumAbove * avg.den THEN "Medium"
    ELSE "Low"

\* main.py:160
InnovationLevel(avg) ==
    IF avg.num > HighAbove * avg.den THEN "High"
    ELSE IF avg.num > MediumAbove * avg.den THEN "Medium"
    ELSE "Low"

EmergingCount == 5

\* main.py:159
EmergingKeywords(top) ==
    MapSeq(SubSeq(top, 1, Min(EmergingCount, Len(top))), LAMBDA kv : kv[1])

\* main.py:163-168: one entry of sample_papers, built from an analysis result
SamplePaper(a) ==
    [title    |-> a.title,
     arxiv_id |-> a.arxiv_id,
     authors  |-> IF "authors" \in DOMAIN a
                  THEN SubSeq(a["authors"], 1, Min(MaxAuthors, Len(a["authors"])))
                  ELSE <<>>,
     analysis |-> a.analysis]

\* main.py:145-150.  Time is counted in seconds from the second in which the
\* report is assembled, so datetime.now() at main.py:146 is 0.  The query
\* and the categories searched are fixed strings of the search and left out.
ReportMetadata == [generation_date |-> 0, papersynth_version |-> "1.0.0"]

\* A report that counts every fetched paper as analyzed.
BuildReportCountsFetched(fetched, analyzed) ==
    LET trends == Trends(analyzed)
    IN  [metadata |-> ReportMetadata,
         summary |-> [total_papers_found |-> Len(fetched),
                      papers_analyzed    |-> Len(fetched),
                      success_rate       |-> SuccessRate(fetched, fetched)],
         trends |-> trends,
         insights |-> [dominant_category |-> DominantCategory(trends.ai_categories),
                       emerging_keywords |-> EmergingKeywords(trends.top_keywords),
                       innovation_level  |-> InnovationLevel(trends.avg_novelty_score)],
         sample_papers |-> MapSeq(SubSeq(analyzed, 1, Min(SampleSize, Len(analyzed))),
                                  SamplePaper)]

\* main.py:144-171
BuildReport(fetched, analyzed) ==
    LET Assemble(trends) ==
        [metadata |-> ReportMetadata,
         summary |-> [total_papers_found |-> Len(fetched),
                      papers_analyzed    |-> Len(analyzed),
                      success_rate       |-> SuccessRate(analyzed, fetched)],
         trends |-> trends,
         insights |-> [dominant_category |-> DominantCategory(trends.ai_categories),
                       emerging_keywords |-> EmergingKeywords(trends.top_keywords),
                       innovation_level  |-> InnovationLevel(trends.avg_novelty_score)],
         sample_papers |-> MapSeq(SubSeq(analyzed, 1, Min(SampleSize, Len(analyzed))),
                                  SamplePaper)]
    IN  With(Trends(analyzed), Assemble)

-----------------------------------------------------------------------------
(* Renderings, main.py:173-223 *)

\* json.dump writes a dict key that is a str as it is and a key that is an
\* int as its decimal numeral; in the file every key is a string.
JsonDumpKey(k) == IF k.t = "int" THEN ToString(k.n) ELSE k.s

\* json.load gives every key back as a str.
JsonLoadKey(name) == PyStr(name)

JsonDumpMapping(m) == MapSeq(m, LAMBDA kv : <<JsonDumpKey(kv[1]), kv[2]>>)

\* A later member of the same name replaces the value of an earlier one.
JsonLoadMapping(j) ==
    MapSeq(SelectSeq(<<>> \o [i \in 1..Len(j) |-> i],
                     LAMBDA i : \A h \in 1..(i - 1) : j[h][1] # j[i][1]),
           LAMBDA i : LET last == CHOOSE h \in i..Len(j) :
                                     /\ j[h][1] = j[i][1]
                                     /\ \A g \in (h + 1)..Len(j) : j[g][1] # j[i][1]
                      IN  <<JsonLoadKey(j[i][1]), j[last][2]>>)

\* main.py:175-176: the JSON report.  Strings, numbers, lists and the
\* analyses (which json.loads produced) are written as they are; the four
\* trend mappings are dicts whose keys json.dump converts.
JsonDumpReport(rep) ==
    [rep EXCEPT !.trends.ai_categories        = JsonDumpMapping(@),
                !.trends.top_keywords         = JsonDumpMapping(@),
                !.trends.methodologies        = JsonDumpMapping(@),
                !.trends.novelty_distribution = JsonDumpMapping(@)]

\* json.load of the JSON report
JsonLoadReport(file) ==
    [file EXCEPT !.trends.ai_categories        = JsonLoadMapping(@),
                 !.trends.top_keywords         = JsonLoadMapping(@),
                 !.trends.methodologies        = JsonLoadMapping(@),
                 !.trends.novelty_distribution = JsonLoadMapping(@)]

MarkdownCategories == 5
MarkdownKeywords == 10
MarkdownMethods == 5

\* f"{x:.1f}" of the mean novelty score
FormatOneDecimal(avg) ==
    LET tenths == RoundHalfEven(10 * avg.num, avg.den)
    IN  Digits(tenths \div 10) \o <<".", ToString(tenths % 10)>>

\* dict.get(k, default) on an analysis that is a dict
AnalysisGet(analysis, k, default) ==
    IF k \in DOMAIN analysis.d THEN analysis.d[k] ELSE PyStr(default)

\* main.py:180-218: what the Markdown template interpolates, now being the
\* value of datetime.now() at main.py:181.
RenderMarkdown(rep, now) ==
    [generated         |-> now,
     papers_found      |-> rep.summary.total_papers_found,
     papers_analyzed   |-> rep.summary.papers_analyzed,
     success_rate      |-> rep.summary.success_rate,
     categories        |-> SubSeq(rep.trends.ai_categories, 1,
                                  Min(MarkdownCategories, Len(rep.trends.ai_categories))),
     keywords          |-> SubSeq(rep.trends.top_keywords, 1,
                                  Min(MarkdownKeywords, Len(rep.trends.top_keywords))),
     methodologies     |-> SubSeq(rep.trends.methodologies, 1,
                                  Min(MarkdownMethods, Len(rep.trends.methodologies))),
     dominant_category |-> rep.insights.dominant_category,
     innovation_level  |-> rep.insights.innovation_level,
     avg_score         |-> FormatOneDecimal(rep.trends.avg_novelty_score),
     hot_topics        |-> rep.insights.emerging_keywords,
     papers            |-> MapSeq(rep.sample_papers, LAMBDA p :
                              [title       |-> p.title,
                               arxiv_id    |-> p.arxiv_id,
                               authors     |-> p.authors,
                               category    |-> AnalysisGet(p.analysis, "ai_subcategory",
                                                           "Unknown"),
                               methodology |-> AnalysisGet(p.analysis, "methodology",
                                                           "Not specified")])]

\* main.py:211-212: paper['analysis'].get(...) raises AttributeError when the
\* parsed response is not a JSON object.
MarkdownRaises(rep) ==
    \E i \in 1..Len(rep.sample_papers) : ~rep.sample_papers[i].analysis.isdict

-----------------------------------------------------------------------------
(* TrendTool, trend_tool.py *)

TrendKeywordsN == 10
TrendMethodsN == 5

\* dict(Counter(items)): <<key, count>> pairs in first-seen order
CounterItems(items) ==
    With(CountsAt(items), LAMBDA cnt :
      With(FirstSeen(items), LAMBDA first :
        MapSeq(SelectSeq(<<>> \o [i \in 1..Len(items) |-> i], LAMBDA i : first[i]),
               LAMBDA i : <<items[i], cnt[i]>>)))

\* trend_tool.py:55, 74, 92: the values of field k of the papers whose
\* analysis has it
TrendCollect(as, k) ==
    MapSeq(SelectSeq(as, LAMBDA a : k \in DOMAIN a.analysis.d),
           LAMBDA a : a.analysis.d[k])

\* trend_tool.py:53-56
TrendKeywords(as) ==
    Flatten(MapSeq(TrendCollect(as, "technical_keywords"),
                   LAMBDA v : MapSeq(v.l, PyStr)))

\* The membership test k in paper['analysis'] raises TypeError when the
\* analysis is a number, and Counter raises it for an unhashable label.
TrendToolRaises(as, type) ==
    /\ type \in {"keywords", "methodologies", "categories"}
    /\ \/ \E i \in 1..Len(as) : ~as[i].analysis.isdict
       \/ type = "methodologies" /\ CounterRaises(TrendCollect(as, "methodology"))
       \/ type = "categories" /\ CounterRaises(TrendCollect(as, "ai_subcategory"))

\* trend_tool.py:48-65
AnalyzeKeywordTrends(as) ==
    With(TrendKeywords(as), LAMBDA kws :
        [top_keywords          |-> MostCommonN(kws, TrendKeywordsN),
         total_unique_keywords |-> Len(CounterItems(kws)),
         keyword_distribution  |-> CounterItems(kws)])

\* trend_tool.py:67-83
AnalyzeMethodologyTrends(as) ==
    With(TrendCollect(as, "methodology"), LAMBDA ms :
        [top_methodologies        |-> MostCommonN(ms, TrendMethodsN),
         methodology_distribution |-> CounterItems(ms)])

\* trend_tool.py:85-100.  dominant_category is a (label, count) pair, or
\* None (<<>>) when no paper has a category.
AnalyzeCategoryTrends(as) ==
    With(TrendCollect(as, "ai_subcategory"), LAMBDA cs :
        [category_distribution |-> CounterItems(cs),
         dominant_category     |-> MostCommonN(cs, 1)])

\* trend_tool.py:21-46
TrendToolRun(as, type) ==
    IF TrendToolRaises(as, type)
    THEN [status |-> "error"]
    ELSE [status |-> "success",
          trend_type |-> type,
          trends |-> CASE type = "keywords"      -> AnalyzeKeywordTrends(as)
                       [] type = "methodologies" -> AnalyzeMethodologyTrends(as)
                       [] type = "categories"    -> AnalyzeCategoryTrends(as)
                       [] OTHER                  -> EmptyDict,
          papers_analyzed |-> Len(as)]

-----------------------------------------------------------------------------
(* Inputs *)

\* Responses of the service in a pipeline run, and in a direct call of the tool.
\* Responses of the service during a pipeline run: the first MaxVaried papers
\* of the run draw from PipelineTexts, every later one from PlainTexts.  A
\* batch handed to GeminiTool._run on its own draws from ToolTexts.
PipelineTexts == {<<"{NLP6}">>, <<"{NLP8}">>, <<"42">>, <<"{cats}">>}
PlainTexts    == {<<"{NLP6}">>}
ToolTexts     == {<<"{NLP6}">>, <<"{NLP8}">>, <<"42">>, <<"x">>, <<"{}">>,
                  FenceJson \o <<"{CV9}">> \o Fence}
RunOutcomes(e, p) ==
    {ServiceRaises} \cup
    {ServiceReturns(x) : x \in IF e # "pipeline" THEN ToolTexts
                               ELSE IF p <= MaxVaried THEN PipelineTexts
                               ELSE PlainTexts}

-----------------------------------------------------------------------------
(* The two normalizers of a search result: ArxivTool._papers_processor and   *)
(* agents/paperFetcher.papers_processor.  A search result is the set of the  *)
(* recognized attributes it has (hasattr); entry_id is always there.  A      *)
(* record is a dict from its keys to what the code stored under them: None   *)
(* or the attribute after the conversion the code applies to it.             *)

\* arxiv_tool.py:87-88 and paperFetcher.py:14-15
elements == <<"published", "title", "authors", "summary", "primary_category",
              "categories", "link", "pdf_url">>

Fields(fs) == {fs[i] : i \in 1..Len(fs)}

RawResults == SUBSET Fields(elements)

\* arxiv_tool.py:82-112
ArxivToolPapersProcessor(result) ==
    [k \in {"id", "arxiv_id", "fetched_date"} \cup (Fields(elements) \cap result) |->
        CASE k = "id"           -> "index"
          [] k = "arxiv_id"     -> "entry_id_tail"
          [] k = "fetched_date" -> "now"
          [] k = "published"    -> "isoformat"
          [] k = "authors"      -> "str_of_authors"
          [] k = "summary"      -> "clean_abstract"
          [] OTHER              -> "as_is"]

\* paperFetcher.py:68-100
papers_processor(result, fields) ==
    [k \in {"id", "arxiv_id", "processed_date"} \cup Fields(fields) |->
        CASE k = "id"             -> "index"
          [] k = "arxiv_id"       -> "entry_id_tail"
          [] k = "processed_date" -> "now"
          [] k \notin result      -> "None"
          [] k = "authors"        -> "names_of_authors"
          [] k = "published"      -> "isoformat"
          [] OTHER                -> "as_is"]

\* Search results: one with every attribute, one with entry_id only, one
\* with entry_id and some recognized fields, one with no attribute at all.
ArxivRawResults ==
    {Fields(elements) \cup {"entry_id"}, {"entry_id"},
     {"entry_id", "title", "summary"}, {}}

\* What the client and the search do: _create_client raises (arxiv_tool.py:
\* 63-67), iterating client.results raises, or the search yields results.
ArxivInputs ==
    {[client_raises |-> TRUE, search_raises |-> FALSE, results |-> <<>>],
     [client_raises |-> FALSE, search_raises |-> TRUE, results |-> <<>>]} \cup
    {[client_raises |-> FALSE, search_raises |-> FALSE, results |-> rs] :
        rs \in UNION {[1..n -> ArxivRawResults] : n \in 0..MaxResults}}

\* The environment GeminiTool is constructed in: each of the two variables
\* is unset, empty or holds a key, and genai.configure or GenerativeModel
\* raises or not.
KeyValues == {"unset", "empty", "key"}
GeminiEnvs ==
    [GEMINI_API_KEY : KeyValues, GOOGLE_API_KEY : KeyValues, genai_raises : BOOLEAN]

\* agent_factory.py:104-112: the names _create_tool_instances knows, with
\* the class it constructs for each.
ToolClass ==
    ("arxiv_fetcher" :> "ArxivTool") @@ ("gemini_analyzer" :> "GeminiTool") @@
    ("trend_detector" :> "TrendTool")
KnownTools == DOMAIN ToolClass

\* A list of tool names, one of them unknown to the factory, and the known
\* tools whose import or construction raises.
FactoryInputs ==
    {[tool_names |-> ns, raising |-> r] :
        ns \in UNION {[1..n -> KnownTools \cup {"unknown_tool"}] : n \in 0..MaxToolNames},
        r \in SUBSET KnownTools}

\* gemini_analyzer.py:34-46: the attributes of a PaperData.
PaperDataFields ==
    {"title", "authors", "published", "summary", "categories", "primary_category",
     "html_url"}

\* Responses of the service behind a batch handed to analyze_batch; paper i
\* of the batch is the PaperData whose html_url is i.
BatchTexts == {<<"{NLP6}">>, <<" ", "{CV9}", " ">>, <<"42">>, <<"x">>}
BatchOutcomes == {ServiceRaises} \cup {ServiceReturns(x) : x \in BatchTexts}
BatchInputs == UNION {[1..n -> BatchOutcomes] : n \in 0..MaxBatchPapers}

\* crew_manager.py:5-13: what the statement of line 9, import datetime,
\* binds the name datetime to.
DatetimeBinding == "module"

\* The attributes of the datetime module and of its class datetime that
\* matter here: now is a method of the class.
Attributes ==
    ("module" :> {"datetime", "date", "time", "timedelta", "timezone"}) @@
    ("class"  :> {"now", "utcnow", "fromisoformat", "strptime"})

\* A call of execute_crew: the crew's name, whether create_crew raises,
\* whether kickoff raises and what it returns, whether creating the outputs
\* directory or writing the file raises.
CrewInputs ==
    [crew_name : {"research", "review"}, create_raises : BOOLEAN,
     kickoff_raises : BOOLEAN, result : {[raw |-> "r1"], [raw |-> "r2"]},
     write_raises : BOOLEAN]

\* Responses of the service behind a collection handed to the aggregation.
AggTexts == {<<"{RL5}">>, <<"{ML4}">>, <<"{RL7}">>, <<"{part}">>, <<"x">>}
AggOutcomes == {ServiceRaises} \cup {ServiceReturns(x) : x \in AggTexts}

\* The results of analysing the fetched papers 1..Len(outs), paper i being
\* answered by outs[i].
AnalysesOf(outs) ==
    Flatten(<<>> \o [i \in DOMAIN outs |->
                         AnalyzeSinglePaper(Paper(i, AllKeys), FALSE, outs[i])])
AggInputs == UNION {[1..n -> AggOutcomes] : n \in 0..MaxAggPapers}

\* Responses of the service behind a collection handed to TrendTool._run.
TrendTexts == {<<"{NLP6}">>, <<"{CV9}">>, <<"{RL5}">>, <<"{ML4}">>, <<"{cats}">>,
               <<"42">>, <<"x">>}
TrendOutcomes == {ServiceReturns(x) : x \in TrendTexts}
TrendInputs == UNION {[1..n -> TrendOutcomes] : n \in 0..MaxAggPapers}
TrendTypes == {"keywords", "methodologies", "categories", "other"}

\* Responses of the service for one paper: an optional opening fence, a body,
\* an optional closing fence, with or without surrounding whitespace.
Leads  == {<<>>, <<" ">>}
Opens  == {<<>>, FenceJson, Fence, FenceJson \o <<" ">>, Fence \o <<" ">>}
Bodies == {<<d>> : d \in DOMAIN JsonDocs} \cup {<<>>, <<"x">>, <<"{NLP6}", "x">>}
Closes == {<<>>, Fence, <<" ">> \o Fence}
ResponseTexts ==
    {l \o o \o b \o c \o t : l \in Leads, o \in Opens, b \in Bodies,
                              c \in Closes, t \in Leads}
SingleOutcomes == {ServiceRaises} \cup {ServiceReturns(x) : x \in ResponseTexts}

KeyVariants == {AllKeys, AllKeys \ {"title"}, AllKeys \ {"ar5iv_url", "arxiv_id"}}
ToolPaperLists ==
    UNION {[1..n -> KeyVariants] : n \in 0..MaxToolPapers}

-----------------------------------------------------------------------------
(* State machine *)

NoRunOut == [status |-> "none"]

Init ==
    /\ entry \in {"pipeline", "aggregate", "tool", "single", "trend", "normalize",
                 "arxiv", "setup", "factory", "batch", "crew"}
    /\ pc = CASE entry = "pipeline"  -> "start"
              [] entry = "aggregate" -> "aggregate"
              [] entry = "tool"      -> "run_enter"
              [] entry = "single"    -> "single_call"
              [] entry = "trend"     -> "trend_call"
              [] entry = "normalize" -> "normalize_call"
              [] entry = "arxiv"     -> "arxiv_call"
              [] entry = "setup"     -> "setup_call"
              [] entry = "factory"   -> "factory_call"
              [] entry = "batch"     -> "batch_call"
              [] entry = "crew"      -> "crew_call"
    /\ IF entry \in {"aggregate", "trend"}
       THEN \E outs \in IF entry = "aggregate" THEN AggInputs ELSE TrendInputs :
               /\ papers = FetchedPapers(Len(outs))
               /\ all_analyses = AnalysesOf(outs)
       ELSE papers = <<>> /\ all_analyses = <<>>
    /\ fetch_status = IF entry = "aggregate" THEN "success" ELSE "none"
    /\ gemini_model \in IF entry = "tool" THEN BOOLEAN ELSE {FALSE}
    /\ batch_i = 0
    /\ run_papers \in IF entry = "tool"
                      THEN {<<>> \o [i \in DOMAIN ks |-> Paper(i, ks[i])] :
                               ks \in ToolPaperLists}
                      ELSE {<<>>}
    /\ run_idx = 0
    /\ results = <<>>
    /\ run_out = NoRunOut
    /\ run_log = <<>>
    /\ run_delays = 0
    /\ search_calls = 0
    /\ service_calls = 0
    /\ tool_calls = 0
    /\ adapter_results = Len(all_analyses)
    /\ paced = FALSE
    /\ unpaced = FALSE
    /\ written = IF entry = "aggregate" THEN <<"raw_papers", "analysis">> ELSE <<>>
    /\ report = <<>>
    /\ retval = "none"
    /\ raised = ""
    /\ use_urls \in IF entry \in {"tool", "single"} THEN BOOLEAN ELSE {FALSE}
    /\ sp_paper \in IF entry = "single"
                    THEN {<<Paper(1, ks)>> : ks \in KeyVariants} ELSE {<<>>}
    /\ sp_svc = <<>>
    /\ sp_result = <<>>
    /\ trend_out = NoRunOut
    /\ markdown = <<>>
    /\ raw_result \in IF entry = "normalize" THEN {<<r>> : r \in RawResults}
                      ELSE {<<>>}
    /\ tool_record = <<>>
    /\ fetcher_record = <<>>
    /\ arxiv_in \in IF entry = "arxiv" THEN {<<x>> : x \in ArxivInputs} ELSE {<<>>}
    /\ arxiv_out = NoRunOut
    /\ gemini_env \in IF entry = "setup" THEN {<<e>> : e \in GeminiEnvs} ELSE {<<>>}
    /\ factory_in \in IF entry = "factory" THEN {<<x>> : x \in FactoryInputs} ELSE {<<>>}
    /\ factory_out = <<>>
    /\ summary = <<>>
    /\ batch_in \in IF entry = "batch" THEN {<<x>> : x \in BatchInputs} ELSE {<<>>}
    /\ batch_out = <<>>
    /\ crew_in \in IF entry = "crew" THEN {<<x>> : x \in CrewInputs} ELSE {<<>>}
    /\ crew_out = <<>>

pipeVars == <<papers, fetch_status, batch_i, all_analyses, search_calls, written,
              report, retval, raised>>
runVars == <<run_papers, run_idx, results, run_out, run_log, run_delays,
             service_calls, tool_calls, adapter_results, paced, unpaced>>
spVars == <<sp_paper, sp_svc, sp_result>>
auxVars == <<trend_out, markdown, raw_result, tool_record, fetcher_record>>
compVars == <<arxiv_in, arxiv_out, gemini_env, factory_in, factory_out, summary,
              batch_in, batch_out, crew_in, crew_out>>

\* _analyze_single_paper called on its own (tests/unit/test_gemini_tool.py)
AnalyzeSingle ==
    /\ pc = "single_call"
    /\ \E svc \in SingleOutcomes :
          /\ sp_svc' = <<svc>>
          /\ sp_result' = AnalyzeSinglePaper(sp_paper[1], use_urls, svc)
    /\ pc' = "single_done"
    /\ UNCHANGED <<entry, gemini_model, use_urls, sp_paper, pipeVars, runVars, auxVars, compVars>>

\* TrendTool._run called on an analyzed collection
TrendRun ==
    /\ pc = "trend_call"
    /\ \E type \in TrendTypes : trend_out' = TrendToolRun(all_analyses, type)
    /\ pc' = "trend_done"
    /\ UNCHANGED <<entry, gemini_model, use_urls, pipeVars, runVars, spVars, markdown,
                   raw_result, tool_record, fetcher_record, compVars>>

\* What ArxivTool._run returns (arxiv_tool.py:45-56): the papers on success,
\* a message and no papers on error.
SearchResults ==
    {[status |-> "error", papers |-> <<>>]} \cup
    {[status |-> "success", papers |-> FetchedPapers(n)] : n \in 0..MaxPapers}

\* A status test that lets an error result through.
FetchFailedNever(status) == FALSE

\* main.py:49
FetchFailed(status) == status # "success"

\* main.py:38-68: the search, the fetch-failure branch, saving the raw papers
FetchPapers ==
    /\ pc = "start"
    /\ \/ /\ raised' = "fetch"                  \* import or construction raises
          /\ pc' = "except"
          /\ UNCHANGED <<papers, fetch_status, search_calls, written, retval>>
       \/ \E res \in SearchResults :
             /\ search_calls' = search_calls + 1
             /\ fetch_status' = res.status
             /\ IF FetchFailed(res.status)
                THEN /\ written' = Append(written, "error_report")
                     /\ retval' = "False"
                     /\ pc' = "returned"
                     /\ UNCHANGED <<papers, raised>>
                ELSE /\ papers' = res.papers
                     /\ \/ /\ written' = Append(written, "raw_papers")
                           /\ pc' = "setup_gemini"
                           /\ UNCHANGED raised
                        \/ /\ raised' = "save_papers"   \* the write raises
                           /\ pc' = "except"
                           /\ UNCHANGED written
                     /\ UNCHANGED retval
    /\ UNCHANGED <<entry, gemini_model, use_urls, batch_i, all_analyses, report,
                   runVars, spVars, auxVars, compVars>>

\* main.py:73-78, gemini_tool.py:27-46
SetupGemini ==
    /\ pc = "setup_gemini"
    /\ \/ /\ raised' = "analysis"               \* import or construction raises
          /\ pc' = "except"
          /\ UNCHANGED gemini_model
       \/ /\ gemini_model' \in BOOLEAN           \* FALSE: no API key
          /\ pc' = "batches"
          /\ UNCHANGED raised
    /\ UNCHANGED <<entry, use_urls, papers, fetch_status, batch_i, all_analyses,
                   search_calls, written, report, retval, runVars, spVars, auxVars, compVars>>

\* main.py:80-84: the next batch is handed to GeminiTool._run
NextBatch ==
    /\ pc = "batches"
    /\ batch_i < Len(papers)
    /\ run_papers' = SubSeq(papers, batch_i + 1, Min(batch_i + batch_size, Len(papers)))
    /\ pc' = "run_enter"
    /\ UNCHANGED <<entry, gemini_model, use_urls, pipeVars, run_idx, results, run_out,
                   run_log, run_delays, service_calls, tool_calls, adapter_results,
                   paced, unpaced, spVars, auxVars, compVars>>

\* gemini_tool.py:52-59
RunEnter ==
    /\ pc = "run_enter"
    /\ tool_calls' = tool_calls + 1
    /\ run_idx' = 0
    /\ results' = <<>>
    /\ run_log' = <<>>
    /\ run_delays' = 0
    /\ IF gemini_model
       THEN pc' = "run_loop" /\ run_out' = NoRunOut
       ELSE /\ pc' = "run_return"
            /\ run_out' = [status |-> "error", message |-> "Gemini model not configured"]
    /\ UNCHANGED <<entry, gemini_model, use_urls, pipeVars, run_papers, service_calls,
                   adapter_results, paced, unpaced, spVars, auxVars, compVars>>

\* gemini_tool.py:61-70: one iteration of the loop
RunIterate ==
    /\ pc = "run_loop"
    /\ run_idx < Len(run_papers)
    /\ \E svc \in RunOutcomes(entry, batch_i + run_idx + 1) :
          LET i        == run_idx + 1
              paper    == run_papers[i]
              called   == PromptBuilt(paper)
              analysis == AnalyzeSinglePaper(paper, use_urls, svc)
              delay    == DelayAfter(i, Len(run_papers))
          IN  /\ results' = IF analysis # <<>> THEN results \o analysis ELSE results
              /\ run_log' = Append(run_log, [called |-> called,
                                             raises |-> called /\ svc.raises,
                                             delay  |-> delay])
              /\ service_calls' = service_calls + (IF called THEN 1 ELSE 0)
              /\ adapter_results' = adapter_results + Len(analysis)
              /\ unpaced' = (unpaced \/ (called /\ service_calls > 0 /\ ~paced))
              /\ paced' = IF delay THEN TRUE ELSE IF called THEN FALSE ELSE paced
              /\ run_delays' = run_delays + (IF delay THEN 1 ELSE 0)
              /\ run_idx' = i
    /\ UNCHANGED <<entry, pc, gemini_model, use_urls, pipeVars, run_papers, run_out,
                   tool_calls, spVars, auxVars, compVars>>

\* A return that reports an error for a batch in which a paper got no result.
RunFinishAllOrNothing ==
    /\ pc = "run_loop"
    /\ run_idx = Len(run_papers)
    /\ run_out' = IF Len(results) = Len(run_papers)
                  THEN [status |-> "success", analyzed_count |-> Len(results),
                        total_papers |-> Len(run_papers), analyses |-> results]
                  ELSE [status |-> "error", message |-> "Error in Gemini analysis"]
    /\ pc' = "run_return"
    /\ UNCHANGED <<entry, gemini_model, use_urls, pipeVars, run_papers, run_idx,
                   results, run_log, run_delays, service_calls, tool_calls,
                   adapter_results, paced, unpaced, spVars, auxVars, compVars>>

\* gemini_tool.py:72-77
RunFinish ==
    /\ pc = "run_loop"
    /\ run_idx = Len(run_papers)
    /\ run_out' = [status |-> "success", analyzed_count |-> Len(results),
                   total_papers |-> Len(run_papers), analyses |-> results]
    /\ pc' = "run_return"
    /\ UNCHANGED <<entry, gemini_model, use_urls, pipeVars, run_papers, run_idx,
                   results, run_log, run_delays, service_calls, tool_calls,
                   adapter_results, paced, unpaced, spVars, auxVars, compVars>>

\* A loop that reads the analyses of a batch without testing its status.
BatchDoneUnchecked ==
    /\ pc = "run_return"
    /\ entry = "pipeline"
    /\ IF run_out.status = "success"
       THEN /\ all_analyses' = all_analyses \o run_out.analyses
            /\ batch_i' = batch_i + batch_size
            /\ pc' = "batches"
            /\ UNCHANGED raised
       ELSE /\ raised' = "batch"
            /\ pc' = "except"
            /\ UNCHANGED <<all_analyses, batch_i>>
    /\ UNCHANGED <<entry, gemini_model, use_urls, papers, fetch_status, search_calls,
                   written, report, retval, runVars, spVars, auxVars, compVars>>

\* main.py:85-90
BatchDone ==
    /\ pc = "run_return"
    /\ entry = "pipeline"
    /\ all_analyses' = IF run_out.status = "success"
                       THEN all_analyses \o run_out.analyses ELSE all_analyses
    /\ batch_i' = batch_i + batch_size
    /\ pc' = "batches"
    /\ UNCHANGED <<entry, gemini_model, use_urls, papers, fetch_status, search_calls,
                   written, report, retval, raised, runVars, spVars, auxVars, compVars>>

\* main.py:92-106
SaveAnalysis ==
    /\ pc = "batches"
    /\ batch_i >= Len(papers)
    /\ \/ /\ written' = Append(written, "analysis")
          /\ pc' = "aggregate"
          /\ UNCHANGED raised
       \/ /\ raised' = "save_analysis"           \* the write raises
          /\ pc' = "except"
          /\ UNCHANGED written
    /\ UNCHANGED <<entry, gemini_model, use_urls, papers, fetch_status, batch_i,
                   all_analyses, search_calls, report, retval, runVars, spVars, auxVars, compVars>>

\* main.py:108-171
Aggregate ==
    /\ pc = "aggregate"
    /\ IF AggregationRaises(all_analyses)
       THEN raised' = "aggregation" /\ pc' = "except" /\ UNCHANGED report
       ELSE /\ report' = <<BuildReport(papers, all_analyses)>>
            /\ pc' = "write_json"
            /\ UNCHANGED raised
    /\ UNCHANGED <<entry, gemini_model, use_urls, papers, fetch_status, batch_i,
                   all_analyses, search_calls, written, retval, runVars, spVars, auxVars, compVars>>

\* main.py:173-177
WriteJsonReport ==
    /\ pc = "write_json"
    /\ \/ /\ written' = Append(written, "json_report")
          /\ pc' = "write_markdown"
          /\ UNCHANGED raised
       \/ /\ raised' = "json_report"             \* the write raises
          /\ pc' = "except"
          /\ UNCHANGED written
    /\ UNCHANGED <<entry, gemini_model, use_urls, papers, fetch_status, batch_i,
                   all_analyses, search_calls, report, retval, runVars, spVars, auxVars, compVars>>

\* main.py:179-223
WriteMarkdownReport ==
    /\ pc = "write_markdown"
    /\ IF MarkdownRaises(report[1])
       THEN raised' = "markdown" /\ pc' = "except" /\ UNCHANGED <<written, markdown>>
       ELSE \/ /\ \E now \in 0..MaxElapsed :
                     markdown' = <<RenderMarkdown(report[1], now)>>
               /\ written' = Append(written, "markdown_report")
               /\ pc' = "write_summary"
               /\ UNCHANGED raised
            \/ /\ raised' = "markdown_report"    \* the write raises
               /\ pc' = "except"
               /\ UNCHANGED <<written, markdown>>
    /\ UNCHANGED <<entry, gemini_model, use_urls, papers, fetch_status, batch_i,
                   all_analyses, search_calls, report, retval, runVars, spVars,
                   trend_out, raw_result, tool_record, fetcher_record, compVars>>

\* main.py:226-239: the summary of a run; a path is the name of the artifact
\* written to it (papers_file, analysis_file, json_report_file, markdown_file).
RunSummary(fetched, analyzed) ==
    [execution_summary |-> [status |-> "success",
                            papers_processed |-> Len(fetched),
                            papers_analyzed  |-> Len(analyzed)],
     generated_files |-> [raw_papers      |-> "raw_papers",
                          analysis_data   |-> "analysis",
                          json_report     |-> "json_report",
                          markdown_report |-> "markdown_report"]]

\* main.py:225-251
WriteSummary ==
    /\ pc = "write_summary"
    /\ \/ /\ summary' = <<RunSummary(papers, all_analyses)>>
          /\ written' = Append(written, "run_summary")
          /\ retval' = "True"
          /\ pc' = "returned"
          /\ UNCHANGED raised
       \/ /\ raised' = "run_summary"             \* the write raises
          /\ pc' = "except"
          /\ UNCHANGED <<written, retval, summary>>
    /\ UNCHANGED <<entry, gemini_model, use_urls, papers, fetch_status, batch_i,
                   all_analyses, search_calls, report, runVars, spVars, auxVars,
                   arxiv_in, arxiv_out, gemini_env, factory_in, factory_out, batch_in, batch_out, crew_in,
                   crew_out>>

\* A handler that also writes a run summary, with status failed.
ExceptHandlerSummarising ==
    /\ pc = "except"
    /\ summary' = <<[RunSummary(papers, all_analyses) EXCEPT
                        !.execution_summary.status = "failed"]>>
    /\ written' = written \o <<"error_report", "run_summary">>
    /\ retval' = "False"
    /\ pc' = "returned"
    /\ UNCHANGED <<entry, gemini_model, use_urls, papers, fetch_status, batch_i,
                   all_analyses, search_calls, report, raised, runVars, spVars, auxVars,
                   arxiv_in, arxiv_out, gemini_env, factory_in, factory_out, batch_in, batch_out, crew_in,
                   crew_out>>

\* A handler that reports failure without writing the error report.
ExceptHandlerSilent ==
    /\ pc = "except"
    /\ retval' = "False"
    /\ pc' = "returned"
    /\ UNCHANGED <<entry, gemini_model, use_urls, papers, fetch_status, batch_i,
                   all_analyses, search_calls, written, report, raised, runVars,
                   spVars, auxVars, compVars>>

\* main.py:253-270.  The outputs directory exists and is writable
\* (main.py:275 creates it before the run), so this write succeeds.
ExceptHandler ==
    /\ pc = "except"
    /\ written' = Append(written, "error_report")
    /\ retval' = "False"
    /\ pc' = "returned"
    /\ UNCHANGED <<entry, gemini_model, use_urls, papers, fetch_status, batch_i,
                   all_analyses, search_calls, report, raised, runVars, spVars, auxVars, compVars>>

\* Both normalizers applied to one search result.
Normalize ==
    /\ pc = "normalize_call"
    /\ tool_record' = <<ArxivToolPapersProcessor(raw_result[1])>>
    /\ fetcher_record' = <<papers_processor(raw_result[1], elements)>>
    /\ pc' = "normalize_done"
    /\ UNCHANGED <<entry, gemini_model, use_urls, pipeVars, runVars, spVars,
                   trend_out, markdown, raw_result, compVars>>

-----------------------------------------------------------------------------
(* ArxivTool._run, arxiv_tool.py:24-56.  A search result is the set of the   *)
(* attributes it has; here entry_id may be missing as well.                  *)

\* arxiv_tool.py:94: result.entry_id raises AttributeError on a result
\* without it, and the exception leaves _papers_processor.
PapersProcessorRaises(rs) ==
    \E i \in 1..Len(rs) : "entry_id" \notin rs[i]

\* arxiv_tool.py:90-112 and 124-135: the papers of the results, with the two
\* URLs derived from arxiv_id.
ProcessedPapers(rs) ==
    <<>> \o [i \in 1..Len(rs) |->
               [id |-> i,
                record |-> ("ar5iv_url" :> "of_arxiv_id") @@
                           ("arxiv_url" :> "of_arxiv_id") @@
                           ArxivToolPapersProcessor(rs[i])]]

\* Whether the try block of _run raises, and str(e) of the exception:
\* _create_client (arxiv_tool.py:66-67), the iteration of client.results in
\* _papers_processor (arxiv_tool.py:91), or result.entry_id (arxiv_tool.py:94).
ArxivRaises(in) ==
    in.client_raises \/ in.search_raises \/ PapersProcessorRaises(in.results)
ExceptionText(in) ==
    IF in.client_raises THEN "Error deploying arXiv client: e"
    ELSE IF in.search_raises THEN "search error"
    ELSE "object has no attribute 'entry_id'"

\* An error result whose message leaves out the text of the exception.
ArxivErrorGeneric(text) ==
    [status |-> "error", message |-> <<"Error fetching papers">>]

\* arxiv_tool.py:53-56: the text of the exception follows the prefix
ArxivError(text) ==
    [status |-> "error", message |-> <<"Error fetching papers: ", text>>]

\* arxiv_tool.py:24-56
ArxivToolRun(in) ==
    IF ArxivRaises(in)
    THEN ArxivError(ExceptionText(in))
    ELSE LET ps == ProcessedPapers(in.results)
         IN  [status |-> "success", papers_count |-> Len(ps), papers |-> ps]

ArxivRun ==
    /\ pc = "arxiv_call"
    /\ arxiv_out' = ArxivToolRun(arxiv_in[1])
    /\ pc' = "arxiv_done"
    /\ UNCHANGED <<entry, gemini_model, use_urls, pipeVars, runVars, spVars, auxVars,
                   arxiv_in, gemini_env, factory_in, factory_out, summary, batch_in, batch_out, crew_in,
                   crew_out>>

-----------------------------------------------------------------------------
(* GeminiTool.__init__ and _setup_gemini, gemini_tool.py:27-46 *)

\* gemini_tool.py:35: os.getenv('GEMINI_API_KEY') or os.getenv('GOOGLE_API_KEY');
\* None and the empty string are false.
ApiKey(env) ==
    IF env.GEMINI_API_KEY = "key" THEN env.GEMINI_API_KEY ELSE env.GOOGLE_API_KEY

\* A setup that configures the model whatever the key.
SetupGeminiUnchecked(env) == ~env.genai_raises

\* gemini_tool.py:31-46: whether _gemini_model is set when _setup_gemini
\* returns; every exception of the try block leaves it None.
SetupGeminiModel(env) ==
    IF ApiKey(env) # "key" THEN FALSE
    ELSE ~env.genai_raises

\* gemini_tool.py:27-29
ConstructGeminiTool ==
    /\ pc = "setup_call"
    /\ gemini_model' = SetupGeminiModel(gemini_env[1])
    /\ pc' = "setup_done"
    /\ UNCHANGED <<entry, use_urls, pipeVars, runVars, spVars, auxVars,
                   arxiv_in, arxiv_out, gemini_env, factory_in, factory_out, summary, batch_in, batch_out,
                   crew_in, crew_out>>

-----------------------------------------------------------------------------
(* AgentFactory._create_tool_instances, agent_factory.py:98-119 *)

\* A loop inside one try block: the first exception ends it.
RECURSIVE ToolsUntilFailure(_, _, _, _)
ToolsUntilFailure(tool_names, raising, i, tools) ==
    IF i > Len(tool_names) THEN tools
    ELSE LET tool_name == tool_names[i]
         IN  IF tool_name \in KnownTools
             THEN IF tool_name \in raising THEN tools
                  ELSE ToolsUntilFailure(tool_names, raising, i + 1,
                                         Append(tools, ToolClass[tool_name]))
             ELSE ToolsUntilFailure(tool_names, raising, i + 1, tools)

\* agent_factory.py:102-117: the loop from name i on, tools being the list
\* built so far; the try block is inside the loop.
RECURSIVE ToolsFrom(_, _, _, _)
ToolsFrom(tool_names, raising, i, tools) ==
    IF i > Len(tool_names) THEN tools
    ELSE LET tool_name == tool_names[i]
         IN  IF tool_name \in KnownTools
             THEN IF tool_name \in raising
                  THEN ToolsFrom(tool_names, raising, i + 1, tools)
                  ELSE ToolsFrom(tool_names, raising, i + 1,
                                 Append(tools, ToolClass[tool_name]))
             ELSE ToolsFrom(tool_names, raising, i + 1, tools)

CreateToolInstancesGuardedOnce(tool_names, raising) ==
    ToolsUntilFailure(tool_names, raising, 1, <<>>)

\* agent_factory.py:98-119
CreateToolInstances(tool_names, raising) == ToolsFrom(tool_names, raising, 1, <<>>)

CreateTools ==
    /\ pc = "factory_call"
    /\ factory_out' = CreateToolInstances(factory_in[1].tool_names, factory_in[1].raising)
    /\ pc' = "factory_done"
    /\ UNCHANGED <<entry, gemini_model, use_urls, pipeVars, runVars, spVars, auxVars,
                   arxiv_in, arxiv_out, gemini_env, factory_in, summary, batch_in, batch_out, crew_in,
                   crew_out>>

-----------------------------------------------------------------------------
(* ContentAnalyzerAgent, src/agents/gemini_analyzer.py *)

\* gemini_analyzer.py:96-100: the try block raises when generate_content
\* raises, when response.text is not one JSON document, and when the
\* document is not a dict (the item assignment of line 99 raises TypeError).
TryBlockRaises(svc) ==
    \/ svc.raises
    \/ ~JsonLoads(Strip(svc.text)).ok
    \/ ~JsonLoads(Strip(svc.text)).value.isdict

\* gemini_analyzer.py:98-103: the parsed dict with the two keys added.
AnalysisEntry(url, svc) ==
    [keys      |-> DOMAIN JsonLoads(Strip(svc.text)).value.d
                     \cup {"paper_url", "analyzed_at"},
     paper_url |-> url]

\* gemini_analyzer.py:107-111
ErrorEntry(url) ==
    [keys |-> {"error", "paper_url", "analyzed_at"}, paper_url |-> url]

\* A handler that reads the attribute the dataclass has.
AnalyzePaperHtmlUrl(url, svc) ==
    IF ~TryBlockRaises(svc)
    THEN [raises |-> FALSE, analysis |-> <<AnalysisEntry(url, svc)>>]
    ELSE [raises |-> FALSE, analysis |-> <<ErrorEntry(url)>>]

\* gemini_analyzer.py:94-111: the handler reads paper.url (line 109); an
\* attribute PaperData lacks raises AttributeError out of the handler.
analyze_paper(url, svc) ==
    IF ~TryBlockRaises(svc)
    THEN [raises |-> FALSE, analysis |-> <<AnalysisEntry(url, svc)>>]
    ELSE IF "url" \in PaperDataFields
         THEN [raises |-> FALSE, analysis |-> <<ErrorEntry(url)>>]
         ELSE [raises |-> TRUE, analysis |-> <<>>]

\* gemini_analyzer.py:120-129: the loop from paper i on, analyses being the
\* list built so far; an exception of analyze_paper leaves the loop.
RECURSIVE AnalyzeFrom(_, _, _)
AnalyzeFrom(outs, i, analyses) ==
    IF i > Len(outs) THEN [raises |-> FALSE, analyses |-> analyses]
    ELSE LET one == analyze_paper(i, outs[i])
         IN  IF one.raises THEN [raises |-> TRUE, analyses |-> <<>>]
             ELSE AnalyzeFrom(outs, i + 1, analyses \o one.analysis)

\* gemini_analyzer.py:113-129
analyze_batch(outs) == AnalyzeFrom(outs, 1, <<>>)

AnalyzeBatchCall ==
    /\ pc = "batch_call"
    /\ batch_out' = <<analyze_batch(batch_in[1])>>
    /\ pc' = "batch_done"
    /\ UNCHANGED <<entry, gemini_model, use_urls, pipeVars, runVars, spVars, auxVars,
                   arxiv_in, arxiv_out, gemini_env, factory_in, factory_out, summary, batch_in, crew_in,
                   crew_out>>

-----------------------------------------------------------------------------
(* CrewManager.execute_crew, src/src/crews/crew_manager.py:59-79 *)

\* str(result): the raw text of the crew's output
Str(result) == result.raw

\* The call left by an exception; nothing was written or returned.
CrewRaised(exception) == [raised |-> exception, returned |-> <<>>, file |-> <<>>]

\* crew_manager.py:68-79: the file is written and the result returned.
CrewSaved(in) ==
    IF in.write_raises THEN CrewRaised("OSError")
    ELSE [raised   |-> "",
          returned |-> <<in.result>>,
          file     |-> <<[crew_name |-> in.crew_name, timestamp |-> "now",
                          result |-> Str(in.result)]>>]

\* A module that imports the class, from datetime import datetime.
ExecuteCrewClassImported(in) ==
    IF in.create_raises THEN CrewRaised("create_crew")
    ELSE IF in.kickoff_raises THEN CrewRaised("kickoff")
    ELSE CrewSaved(in)

\* crew_manager.py:59-79: datetime.now() of line 70 looks now up in what the
\* name datetime is bound to.
execute_crew(in) ==
    IF in.create_raises THEN CrewRaised("create_crew")
    ELSE IF in.kickoff_raises THEN CrewRaised("kickoff")
    ELSE IF "now" \notin Attributes[DatetimeBinding] THEN CrewRaised("AttributeError")
    ELSE CrewSaved(in)

ExecuteCrewCall ==
    /\ pc = "crew_call"
    /\ crew_out' = <<execute_crew(crew_in[1])>>
    /\ pc' = "crew_done"
    /\ UNCHANGED <<entry, gemini_model, use_urls, pipeVars, runVars, spVars, auxVars,
                   arxiv_in, arxiv_out, gemini_env, factory_in, factory_out, summary,
                   batch_in, batch_out, crew_in>>

Next ==
    \/ AnalyzeSingle
    \/ ExecuteCrewCall
    \/ AnalyzeBatchCall
    \/ CreateTools
    \/ ConstructGeminiTool
    \/ ArxivRun
    \/ TrendRun
    \/ Normalize
    \/ FetchPapers
    \/ SetupGemini
    \/ NextBatch
    \/ RunEnter
    \/ RunIterate
    \/ RunFinish
    \/ BatchDone
    \/ SaveAnalysis
    \/ Aggregate
    \/ WriteJsonReport
    \/ WriteMarkdownReport
    \/ WriteSummary
    \/ ExceptHandler

Spec == Init /\ [][Next]_vars

PipelineInit == Init /\ entry = "pipeline"

PipelineNext ==
    \/ FetchPapers
    \/ SetupGemini
    \/ NextBatch
    \/ RunEnter
    \/ RunIterate
    \/ RunFinish
    \/ BatchDone
    \/ SaveAnalysis
    \/ Aggregate
    \/ WriteJsonReport
    \/ WriteMarkdownReport
    \/ WriteSummary
    \/ ExceptHandler

\* run_papersynth_pipeline alone.  It is one sequential thread: a step that
\* can be taken is taken.
FairSpec == PipelineInit /\ [][PipelineNext]_vars /\ WF_vars(PipelineNext)

-----------------------------------------------------------------------------
(* Properties *)

Written(artifact) == \E i \in 1..Len(written) : written[i] = artifact

\* The positions of the current batch whose service call was made and returned.
Answered == {i \in 1..Len(run_log) : run_log[i].called /\ ~run_log[i].raises}

\* The elements of s at the positions in idx, in order.
RECURSIVE Pick(_, _, _)
Pick(s, idx, from) ==
    IF from > Len(s) THEN <<>>
    ELSE (IF from \in idx THEN <<s[from]>> ELSE <<>>) \o Pick(s, idx, from + 1)

Titles(s) == MapSeq(s, LAMBDA x : x.title)

\* C1: when the service call raised for a paper of a batch, GeminiTool._run
\* has still gone through every paper of the batch and returns status
\* 'success'; its analyses are, in order, one result for each paper whose
\* service call was made and returned, and none for any other paper, and
\* analyzed_count is their number.
C1_ServiceErrorSkipsPaper ==
    (pc = "run_return" /\ \E i \in 1..Len(run_log) : run_log[i].raises) =>
        /\ Len(run_log) = Len(run_papers)
        /\ run_out.status = "success"
        /\ Titles(run_out.analyses) = Titles(Pick(run_papers, Answered, 1))
        /\ run_out.analyzed_count = Cardinality(Answered)
        /\ run_out.analyzed_count = Len(run_out.analyses)

\* A batch in which a service call raised and a later call was answered.
C1_Witness ==
    /\ pc = "run_return"
    /\ run_out.status = "success"
    /\ \E i, j \in 1..Len(run_log) :
          i < j /\ run_log[i].raises /\ j \in Answered

\* The response text the single call received, when the service returned one.
SingleAnswered ==
    pc = "single_done" /\ PromptBuilt(sp_paper[1]) /\ ~sp_svc[1].raises

\* C2: for every response text that json.loads rejects once the adapter has
\* stripped the fence, _analyze_single_paper returns (does not raise, does
\* not return None) a result whose analysis has exactly the keys
\* raw_response and parse_error, raw_response being the response text as
\* received, and so none of the structured fields.
C2_ParseFailureIsDiagnostic ==
    (SingleAnswered /\ ~JsonLoads(CleanResponse(sp_svc[1].text)).ok) =>
        /\ Len(sp_result) = 1
        /\ sp_result[1].analysis.isdict
        /\ DOMAIN sp_result[1].analysis.d = DiagnosticFields
        /\ sp_result[1].analysis.d["raw_response"] = PyText(sp_svc[1].text)
        /\ sp_result[1].analysis.d["parse_error"].t = "str"
        /\ DOMAIN sp_result[1].analysis.d \cap StructuredFields = {}

\* A fenced, whitespace-padded text that is no JSON, answered with a diagnostic.
C2_Witness ==
    /\ SingleAnswered
    /\ ~JsonLoads(CleanResponse(sp_svc[1].text)).ok
    /\ CleanResponse(sp_svc[1].text) # sp_svc[1].text
    /\ Len(sp_result) = 1

\* A result that carries none of the structured fields.
LacksStructuredFields(a) ==
    ~a.analysis.isdict \/ DOMAIN a.analysis.d \cap StructuredFields = {}

\* C3: the trends of the report are those of the analysed collection with
\* every result that lacks the structured fields removed: such a result
\* adds nothing to the category, keyword and methodology counts, to the
\* mean novelty score or to the novelty histogram.
C3_DiagnosticsNotCounted ==
    report # <<>> =>
        LET kept == SelectSeq(all_analyses, LAMBDA a : ~LacksStructuredFields(a))
        IN  /\ report[1].trends.ai_categories = MostCommon(Categories(kept))
            /\ report[1].trends.top_keywords = MostCommonN(Keywords(kept), TopKeywords)
            /\ report[1].trends.methodologies = MostCommon(Methodologies(kept))
            /\ report[1].trends.avg_novelty_score = Mean(NoveltyScores(kept))
            /\ report[1].trends.novelty_distribution
                  = MostCommon(RoundedScores(NoveltyScores(kept)))

\* A report over a collection holding a parse-failure result and a structured one.
C3_Witness ==
    /\ report # <<>>
    /\ \E i, j \in 1..Len(all_analyses) :
          /\ all_analyses[i].analysis.isdict
          /\ DOMAIN all_analyses[i].analysis.d = DiagnosticFields
          /\ ~LacksStructuredFields(all_analyses[j])
    /\ report[1].trends.ai_categories # <<>>

\* The two shapes of an analysis.
StructuredShape(a) ==
    /\ a.analysis.isdict
    /\ StructuredFields \subseteq DOMAIN a.analysis.d
    /\ DOMAIN a.analysis.d \cap DiagnosticFields = {}
DiagnosticShape(a) ==
    /\ a.analysis.isdict
    /\ DiagnosticFields \subseteq DOMAIN a.analysis.d
    /\ DOMAIN a.analysis.d \cap StructuredFields = {}

\* C4: every result _analyze_single_paper returns has all structured fields
\* and no diagnostic field, or both diagnostic fields and no structured
\* field.
C4_ResultShapes ==
    (pc = "single_done" /\ sp_result # <<>>) =>
        (StructuredShape(sp_result[1]) \/ DiagnosticShape(sp_result[1]))

BothRenderings == Written("json_report") /\ Written("markdown_report")

\* C5: every run of the pipeline returns, and a run that has returned has
\* written both renderings of the report or the error report.
C5_TerminatesWithOutput ==
    /\ (entry = "pipeline") => <>(pc = "returned")
    /\ [](pc = "returned" => (BothRenderings \/ Written("error_report")))

\* A run that returned success with both renderings written.
C5_Witness == pc = "returned" /\ retval = "True" /\ BothRenderings

\* C6: a pipeline run in which the try block raised has written the error
\* report, returns failure, and has written neither rendering of the report.
C6_NoPartialReport ==
    (entry = "pipeline" /\ pc = "returned" /\ raised # "") =>
        /\ Written("error_report")
        /\ retval = "False"
        /\ ~Written("json_report")
        /\ ~Written("markdown_report")

\* C7: once the search has returned a status other than 'success', the run
\* has returned failure, the error report is the only artifact written, the
\* search was called once, and neither the tool nor the service was called.
C7_FetchFailureIsFatal ==
    (fetch_status \notin {"none", "success"}) =>
        /\ pc = "returned"
        /\ retval = "False"
        /\ written = <<"error_report">>
        /\ search_calls = 1
        /\ tool_calls = 0
        /\ service_calls = 0

\* A run whose search returned status 'error'.
C7_Witness == entry = "pipeline" /\ fetch_status = "error" /\ pc = "returned"

\* C8: no two service calls of a pipeline run happen without a pacing delay
\* between them.
C8_DelayBetweenAllCalls == entry = "pipeline" => ~unpaced

Max0(n) == IF n > 0 THEN n ELSE 0

\* C9 as stated: a call of GeminiTool._run over n papers has executed the
\* pacing delay exactly max(0, n-1) times when it returns.
C9_DelaysOfAnyRun ==
    pc = "run_return" => run_delays = Max0(Len(run_papers) - 1)

\* C9, amended: a call of GeminiTool._run over n papers with the model
\* configured executes the pacing delay exactly max(0, n-1) times, after each
\* paper that is not the last, whether or not its analysis returned a
\* result, and never after the last; with the model unset it executes none.
C9_DelaysOfConfiguredRun ==
    pc = "run_return" =>
        IF gemini_model
        THEN /\ run_delays = Max0(Len(run_papers) - 1)
             /\ Len(run_log) = Len(run_papers)
             /\ \A i \in 1..Len(run_log) : run_log[i].delay <=> i < Len(run_papers)
        ELSE run_delays = 0 /\ run_log = <<>>

\* A batch of three whose first paper got no result and was followed by a delay.
C9_Witness ==
    /\ pc = "run_return"
    /\ gemini_model
    /\ Len(run_papers) = 3
    /\ 1 \notin Answered
    /\ run_log[1].delay
    /\ run_delays = 2

\* The scenario of C10: three fetched papers, two results, both 'NLP', with
\* novelty scores 6 and 8.
Score(a) == Data(a)["novelty_score"]
C10_Scenario ==
    /\ Len(papers) = 3
    /\ Len(all_analyses) = 2
    /\ \A i \in 1..2 : /\ HasField(all_analyses[i], "ai_subcategory")
                       /\ HasField(all_analyses[i], "novelty_score")
                       /\ Data(all_analyses[i])["ai_subcategory"] = PyStr("NLP")
    /\ {Score(all_analyses[1]), Score(all_analyses[2])} = {PyInt(6), PyInt(8)}

\* C10: in every report total_papers_found is the number of fetched papers
\* and papers_analyzed the number of results the adapter returned; three
\* fetched papers with two results (scores 6 and 8, both 'NLP') give
\* 3, 2, '66.7%', a mean of 7.0, 'NLP' and 'Medium'.
C10_ReportCounts ==
    report # <<>> =>
        /\ report[1].summary.total_papers_found = Len(papers)
        /\ report[1].summary.papers_analyzed = adapter_results
        /\ C10_Scenario =>
              /\ report[1].summary.total_papers_found = 3
              /\ report[1].summary.papers_analyzed = 2
              /\ report[1].summary.success_rate = <<"6", "6", ".", "7", "%">>
              /\ report[1].trends.avg_novelty_score.num
                    = 7 * report[1].trends.avg_novelty_score.den
              /\ report[1].insights.dominant_category = PyStr("NLP")
              /\ report[1].insights.innovation_level = "Medium"

\* The scenario reached by a pipeline run in which one service call raised.
C10_Witness ==
    /\ entry = "pipeline"
    /\ report # <<>>
    /\ C10_Scenario
    /\ \E i \in 1..Len(run_log) : run_log[i].raises

\* The positions of the results that carry a numeric novelty score.
NumericAt(as) ==
    {i \in 1..Len(as) : /\ as[i].analysis.isdict
                        /\ "novelty_score" \in DOMAIN as[i].analysis.d
                        /\ as[i].analysis.d["novelty_score"].t = "int"}

\* The sum of the novelty scores at the positions idx.
RECURSIVE ScoreTotal(_, _)
ScoreTotal(as, idx) ==
    IF idx = {} THEN 0
    ELSE LET i == CHOOSE i \in idx : TRUE
         IN  as[i].analysis.d["novelty_score"].n + ScoreTotal(as, idx \ {i})

\* C11: the mean novelty score of a report just assembled is 0 when no
\* result carries a numeric score, and otherwise the sum of the numeric
\* scores over the number of results carrying one; its divisor is never 0.
C11_MeanNovelty ==
    pc = "write_json" =>
        LET idx == NumericAt(all_analyses)
            avg == report[1].trends.avg_novelty_score
        IN  /\ avg.den > 0
            /\ IF idx = {} THEN avg.num = 0
               ELSE avg.num * Cardinality(idx) = ScoreTotal(all_analyses, idx) * avg.den

\* A report over results of which one has a score that is no number and two
\* have numeric scores whose mean is no integer.
C11_Witness ==
    /\ pc = "write_json"
    /\ Cardinality(NumericAt(all_analyses)) = 2
    /\ ScoreTotal(all_analyses, NumericAt(all_analyses)) % 2 = 1
    /\ \E i \in 1..Len(all_analyses) :
          /\ HasField(all_analyses[i], "novelty_score")
          /\ i \notin NumericAt(all_analyses)

\* The positions of the results that carry a category label, and the number
\* of results carrying the label of position i.
LabelledAt(as) == {i \in 1..Len(as) : HasField(as[i], "ai_subcategory")}
LabelOf(as, i) == as[i].analysis.d["ai_subcategory"]
LabelCount(as, i) ==
    Cardinality({j \in LabelledAt(as) : LabelOf(as, j) = LabelOf(as, i)})

\* C12: the dominant category of a report just assembled is 'Unknown' when
\* no result carries a category; otherwise it is the label of the first
\* result, in the order of the analyzed collection, whose label has the
\* highest count, and no entry of ai_categories has a higher count.
C12_DominantCategory ==
    pc = "write_json" =>
        LET idx  == LabelledAt(all_analyses)
            dom  == report[1].insights.dominant_category
            cats == report[1].trends.ai_categories
        IN  IF idx = {} THEN dom = PyStr("Unknown") /\ cats = <<>>
            ELSE \E i \in idx :
                    /\ dom = LabelOf(all_analyses, i)
                    /\ \A j \in idx :
                          LabelCount(all_analyses, j) <= LabelCount(all_analyses, i)
                    /\ \A j \in idx :
                          j < i => LabelCount(all_analyses, j) < LabelCount(all_analyses, i)
                    /\ \E p \in 1..Len(cats) :
                          /\ cats[p] = <<dom, LabelCount(all_analyses, i)>>
                          /\ \A q \in 1..Len(cats) : cats[q][2] <= cats[p][2]

\* A report over results whose two labels share the highest count.
C12_Witness ==
    /\ pc = "write_json"
    /\ \E i, j \in LabelledAt(all_analyses) :
          /\ LabelOf(all_analyses, i) # LabelOf(all_analyses, j)
          /\ LabelCount(all_analyses, i) = LabelCount(all_analyses, j)
          /\ \A k \in LabelledAt(all_analyses) :
                LabelCount(all_analyses, k) <= LabelCount(all_analyses, i)

\* C13: the innovation level of a report just assembled is 'High' exactly
\* when the mean novelty score is above 7, 'Medium' exactly when it is above
\* 5 and at most 7, and 'Low' otherwise; a collection without numeric
\* scores (mean 0) gives 'Low'.
C13_InnovationLevel ==
    pc = "write_json" =>
        LET avg   == report[1].trends.avg_novelty_score
            level == report[1].insights.innovation_level
        IN  /\ level \in {"High", "Medium", "Low"}
            /\ level = "High" <=> avg.num > 7 * avg.den
            /\ level = "Medium" <=> (avg.num > 5 * avg.den /\ avg.num <= 7 * avg.den)
            /\ level = "Low" <=> avg.num <= 5 * avg.den
            /\ NumericAt(all_analyses) = {} => level = "Low"

\* A report whose mean novelty score is exactly 5, over more than one score.
C13_Witness ==
    /\ pc = "write_json"
    /\ Cardinality(NumericAt(all_analyses)) > 1
    /\ report[1].trends.avg_novelty_score.num = 5 * report[1].trends.avg_novelty_score.den
    /\ report[1].insights.innovation_level = "Low"

\* The number a sequence of decimal digits denotes.
DigitValue(c) == CHOOSE d \in 0..9 : ToString(d) = c
RECURSIVE DecimalValue(_)
DecimalValue(ds) ==
    IF ds = <<>> THEN 0
    ELSE 10 * DecimalValue(SubSeq(ds, 1, Len(ds) - 1)) + DigitValue(ds[Len(ds)])

IsDigit(c) == \E d \in 0..9 : ToString(d) = c

\* C14: the success rate of a report just assembled is the string '0%' when
\* no paper was fetched; otherwise it is a decimal numeral with one decimal
\* place and no superfluous leading zero, followed by '%', whose value is a
\* tenth nearest to analyzed / fetched * 100; 2 of 3 gives '66.7%'.
C14_SuccessRate ==
    pc = "write_json" =>
        LET a  == Len(all_analyses)
            p  == Len(papers)
            sr == report[1].summary.success_rate
            n  == Len(sr)
        IN  IF p = 0 THEN sr = <<"0", "%">>
            ELSE /\ n >= 4
                 /\ sr[n] = "%" /\ sr[n - 2] = "."
                 /\ \A i \in (1..(n - 3)) \cup {n - 1} : IsDigit(sr[i])
                 /\ n > 4 => sr[1] # "0"
                 /\ LET tenths == 10 * DecimalValue(SubSeq(sr, 1, n - 3))
                                    + DigitValue(sr[n - 1])
                    IN  /\ 2 * tenths * p <= 2000 * a + p
                        /\ 2 * tenths * p >= 2000 * a - p
                 /\ (a = 2 /\ p = 3) => sr = <<"6", "6", ".", "7", "%">>

\* A pipeline run that fetched no paper and assembled its report.
C14_Witness ==
    /\ entry = "pipeline"
    /\ pc = "write_json"
    /\ papers = <<>>
    /\ report[1].summary.success_rate = <<"0", "%">>

\* The keyword list of the result at position i (empty when it has none).
KeywordListAt(as, i) ==
    IF HasField(as[i], "technical_keywords")
          /\ as[i].analysis.d["technical_keywords"].t = "list"
    THEN as[i].analysis.d["technical_keywords"].l
    ELSE <<>>

\* The number of keywords in the lists before position i.
RECURSIVE KeywordOffset(_, _)
KeywordOffset(as, i) ==
    IF i <= 1 THEN 0
    ELSE KeywordOffset(as, i - 1) + Len(KeywordListAt(as, i - 1))

\* kws is the keyword lists of as, one after the other.
IsFlattened(kws, as) ==
    /\ Len(kws) = KeywordOffset(as, Len(as) + 1)
    /\ \A i \in 1..Len(as) : \A j \in 1..Len(KeywordListAt(as, i)) :
          kws[KeywordOffset(as, i) + j] = PyStr(KeywordListAt(as, i)[j])

\* top is the count of every keyword of kws, ordered by descending count,
\* equal counts by first occurrence, and cut to its first n entries.
IsTopN(top, kws, n) ==
    LET cnt   == <<>> \o [i \in 1..Len(kws) |->
                             Cardinality({j \in 1..Len(kws) : kws[j] = kws[i]})]
        first == {i \in 1..Len(kws) : \A j \in 1..(i - 1) : kws[j] # kws[i]}
        pos   == <<>> \o [p \in 1..Len(top) |->
                             IF \E i \in first : kws[i] = top[p][1]
                             THEN CHOOSE i \in first : kws[i] = top[p][1] ELSE 0]
        Precedes(i, j) == cnt[i] > cnt[j] \/ (cnt[i] = cnt[j] /\ i < j)
    IN  /\ Len(top) <= n
        /\ Len(top) = Min(n, Cardinality(first))
        /\ \A p \in 1..Len(top) : pos[p] > 0 /\ top[p][2] = cnt[pos[p]]
        /\ \A p, q \in 1..Len(top) : p < q => Precedes(pos[p], pos[q])
        /\ \A i \in first :
              (\A p \in 1..Len(top) : pos[p] # i) =>
                 \A p \in 1..Len(top) : Precedes(pos[p], i) /\ cnt[i] <= cnt[pos[p]]

\* C15: top_keywords of a report just assembled is the count of the
\* keywords of all per-paper keyword lists, flattened, ordered by descending
\* count with equal counts by first occurrence, cut to 15 entries; the
\* top_keywords TrendTool returns is the same cut to 10 entries; and the
\* keywords a, a, b, c, c, c cut to 2 give c:3 then a:2.
C15_KeywordTrend ==
    /\ pc = "write_json" =>
          /\ IsFlattened(Keywords(all_analyses), all_analyses)
          /\ IsTopN(report[1].trends.top_keywords, Keywords(all_analyses), 15)
    /\ (pc = "trend_done" /\ trend_out.status = "success"
                          /\ trend_out.trend_type = "keywords") =>
          /\ IsFlattened(TrendKeywords(all_analyses), all_analyses)
          /\ IsTopN(trend_out.trends.top_keywords, TrendKeywords(all_analyses), 10)
    /\ MostCommonN(MapSeq(<<"a", "a", "b", "c", "c", "c">>, PyStr), 2)
          = <<<<PyStr("c"), 3>>, <<PyStr("a"), 2>>>>

\* A report over more than 15 different keywords, the most frequent of which
\* is not the first one met.
C15_Witness ==
    /\ pc = "write_json"
    /\ Len(report[1].trends.top_keywords) = 15
    /\ Len(MostCommon(Keywords(all_analyses))) > 15
    /\ report[1].trends.top_keywords[1][2] > report[1].trends.top_keywords[15][2]
    /\ report[1].trends.top_keywords[1][1] # Keywords(all_analyses)[1]

\* C16: reading back the JSON report a run has written gives the report,
\* field for field, the keys and values of the trend mappings included.
C16_JsonRoundTrip ==
    pc = "write_markdown" => JsonLoadReport(JsonDumpReport(report[1])) = report[1]

\* C17: the Markdown a run has written is determined by the report alone:
\* every value in it, the generation time included, is read from the report.
C17_RenderingsFromReport ==
    pc = "write_summary" =>
        markdown[1] = RenderMarkdown(report[1], report[1].metadata.generation_date)

\* The sample is the first min(SampleSize, n) of the n analyzed results, in
\* their order.
SamplesArePrefix ==
    LET samples == report[1].sample_papers
    IN  /\ Len(samples) = Min(SampleSize, Len(all_analyses))
        /\ \A i \in 1..Len(samples) :
              /\ samples[i].arxiv_id = all_analyses[i].arxiv_id
              /\ samples[i].title = all_analyses[i].title
              /\ samples[i].analysis = all_analyses[i].analysis

\* Every sample carries the first min(MaxAuthors, k) of the k authors of the
\* fetched paper it was made from.
SamplesCarryAuthors ==
    LET samples == report[1].sample_papers
    IN  \A i \in 1..Len(samples) : \A j \in 1..Len(papers) :
            papers[j].arxiv_id = samples[i].arxiv_id =>
                samples[i].authors =
                    SubSeq(papers[j].authors, 1, Min(MaxAuthors, Len(papers[j].authors)))

\* C18: the report's sample_papers are the first min(5, n) of the n analyzed
\* results, in order, each with the first min(3, k) of its paper's k authors
\* as fetched.
C18_SamplePapers ==
    pc = "write_json" => SamplesArePrefix /\ SamplesCarryAuthors

\* A sequence in the order given by the permutation p of its positions.
Reorder(s, p) == <<>> \o [i \in 1..Len(s) |-> s[p[i]]]

\* A dict as the set of its items: two dicts are equal when they hold the
\* same values under the same keys, whatever their order.
AsMapping(m) == {m[i] : i \in 1..Len(m)}

\* One key has a larger count than every other.
LargestIsUnique(counts) ==
    \E i \in 1..Len(counts) :
        \A j \in 1..Len(counts) : j # i => counts[j][2] < counts[i][2]

\* In counts sorted largest first, the keys at places n and n + 1 tie.
TieAtCut(sorted, n) == Len(sorted) > n /\ sorted[n][2] = sorted[n + 1][2]

\* In counts sorted largest first, no two of the keys up to place n + 1 tie.
NoTieUpTo(sorted, n) ==
    \A i \in 1..Min(n, Len(sorted) - 1) : sorted[i][2] > sorted[i + 1][2]

\* The report assembled from the analyses in another order gives the same
\* trend mappings, mean, histogram and insights.
SameSummary(rep, other) ==
    /\ AsMapping(other.trends.ai_categories) = AsMapping(rep.trends.ai_categories)
    /\ AsMapping(other.trends.top_keywords) = AsMapping(rep.trends.top_keywords)
    /\ AsMapping(other.trends.methodologies) = AsMapping(rep.trends.methodologies)
    /\ other.trends.avg_novelty_score = rep.trends.avg_novelty_score
    /\ AsMapping(other.trends.novelty_distribution)
           = AsMapping(rep.trends.novelty_distribution)
    /\ other.insights = rep.insights

\* The same, where no tie in count decides the result: the truncated keyword
\* mapping unless a tie spans the cut, the dominant category when one
\* category has the largest count, the emerging keywords when no two of the
\* keywords up to the place after the last of them tie.
SameSummaryButTies(rep, other, keywords) ==
    /\ AsMapping(other.trends.ai_categories) = AsMapping(rep.trends.ai_categories)
    /\ AsMapping(other.trends.methodologies) = AsMapping(rep.trends.methodologies)
    /\ other.trends.avg_novelty_score = rep.trends.avg_novelty_score
    /\ AsMapping(other.trends.novelty_distribution)
           = AsMapping(rep.trends.novelty_distribution)
    /\ other.insights.innovation_level = rep.insights.innovation_level
    /\ ~TieAtCut(keywords, TopKeywords) =>
           AsMapping(other.trends.top_keywords) = AsMapping(rep.trends.top_keywords)
    /\ LargestIsUnique(rep.trends.ai_categories) =>
           other.insights.dominant_category = rep.insights.dominant_category
    /\ NoTieUpTo(keywords, EmergingCount) =>
           other.insights.emerging_keywords = rep.insights.emerging_keywords

\* C19 as stated: the aggregation does not depend on the order of its input:
\* every permutation of a collection of analysis results gives the same
\* TrendSummary and the same insights.
C19_OrderIndependent ==
    (entry = "aggregate" /\ pc = "write_json") =>
        \A p \in Permutations(DOMAIN all_analyses) :
            SameSummary(report[1], BuildReport(papers, Reorder(all_analyses, p)))

\* C19: every permutation of a collection of analysis results gives the same
\* counts in the category, methodology and histogram mappings, the same
\* mean and innovation level, and, where no tie in count decides them, the
\* same truncated keyword mapping, dominant category and emerging keywords.
C19_OrderIndependentButTies ==
    (entry = "aggregate" /\ pc = "write_json") =>
        With(MostCommon(Keywords(all_analyses)), LAMBDA keywords :
            \A p \in Permutations(DOMAIN all_analyses) :
                SameSummaryButTies(report[1],
                                   BuildReport(papers, Reorder(all_analyses, p)),
                                   keywords))

\* A collection of three results is aggregated: its keywords are cut to the
\* top fifteen with no tie at the cut, and one category has the largest count.
C19_Witness ==
    /\ entry = "aggregate" /\ pc = "write_json"
    /\ Len(all_analyses) >= 3
    /\ Len(MostCommon(Keywords(all_analyses))) > TopKeywords
    /\ ~TieAtCut(MostCommon(Keywords(all_analyses)), TopKeywords)
    /\ Len(report[1].trends.ai_categories) >= 2
    /\ LargestIsUnique(report[1].trends.ai_categories)

\* A record has every recognized field, with None for a field the search
\* result lacks.
HasEveryField(record, result) ==
    \A f \in Fields(elements) :
        /\ f \in DOMAIN record
        /\ f \notin result => record[f] = "None"

\* C20: the record either normalizer builds from a search result contains
\* every recognized field, a field absent on the result being present with a
\* null value.
C20_AbsentFieldsAreNull ==
    pc = "normalize_done" =>
        /\ HasEveryField(tool_record[1], raw_result[1])
        /\ HasEveryField(fetcher_record[1], raw_result[1])

\* C21: a search result with none of the recognized fields, the external
\* reference included, does not block the batch: when the client and the
\* search work, ArxivTool._run returns status success with one record for
\* every result of the search.
C21_BareResultKeepsBatch ==
    (pc = "arxiv_done" /\ ~arxiv_in[1].client_raises /\ ~arxiv_in[1].search_raises) =>
        /\ arxiv_out.status = "success"
        /\ Len(arxiv_out.papers) = Len(arxiv_in[1].results)
        /\ \A i \in 1..Len(arxiv_out.papers) : arxiv_out.papers[i].id = i

\* The response texts that are the JSON body b inside a code fence whose
\* opening line is one of opens.
Fenced(b, opens) ==
    {l \o o \o b \o c \o t : l \in Leads, o \in opens, c \in Closes \ {<<>>},
                              t \in Leads}

\* The single call answered a response that is a JSON body inside a fence
\* opened by one of opens with the result of the bare body, a structured one.
FenceStripped(opens) ==
    \A d \in DOMAIN JsonDocs :
        sp_svc[1].text \in Fenced(<<d>>, opens) =>
            /\ sp_result = AnalyzeSinglePaper(sp_paper[1], use_urls, ServiceReturns(<<d>>))
            /\ sp_result = <<ParsedResult(sp_paper[1], JsonDocs[d], use_urls)>>

\* C22: a response that is a JSON body inside a markdown code fence, opened
\* with or without the json tag, gives the same analysis as the bare body: a
\* structured result, not a parse-failure result.
C22_FenceIsStripped ==
    SingleAnswered => FenceStripped(Opens \ {<<>>})

\* C23: ArxivTool._run always returns.  When creating the client, the
\* search or the processing of the results raises, it returns status error
\* with a message that contains the text of the exception, and no papers;
\* otherwise it returns status success, with papers_count the number of
\* papers returned, one for every result of the search.
C23_ArxivRunNeverRaises ==
    pc = "arxiv_done" =>
        IF ArxivRaises(arxiv_in[1])
        THEN /\ arxiv_out.status = "error"
             /\ \E i \in 1..Len(arxiv_out.message) :
                    arxiv_out.message[i] = ExceptionText(arxiv_in[1])
             /\ "papers" \notin DOMAIN arxiv_out
        ELSE /\ arxiv_out.status = "success"
             /\ arxiv_out.papers_count = Len(arxiv_out.papers)
             /\ Len(arxiv_out.papers) = Len(arxiv_in[1].results)

\* The processing of the second of two results raised.
C23_Witness ==
    /\ pc = "arxiv_done"
    /\ Len(arxiv_in[1].results) = 2
    /\ "entry_id" \in arxiv_in[1].results[1]
    /\ "entry_id" \notin arxiv_in[1].results[2]
    /\ arxiv_out.status = "error"

\* C24: constructing GeminiTool with no API key in the environment returns
\* with the model unset; and when the model is unset, GeminiTool._run returns
\* status error with the 'not configured' message for every list of papers,
\* having made no service call and executed no pacing delay.
C24_NoKeyNoModel ==
    /\ (pc = "setup_done" /\ gemini_env[1].GEMINI_API_KEY # "key"
                          /\ gemini_env[1].GOOGLE_API_KEY # "key") =>
           ~gemini_model /\ raised = ""
    /\ (pc = "run_return" /\ ~gemini_model) =>
           /\ run_out = [status |-> "error", message |-> "Gemini model not configured"]
           /\ service_calls = 0
           /\ run_log = <<>>
           /\ run_delays = 0

\* GeminiTool._run has returned for a list of three papers with the model unset.
C24_Witness ==
    /\ entry = "tool" /\ pc = "run_return"
    /\ ~gemini_model
    /\ Len(run_papers) = 3

\* C25: _create_tool_instances returns, for every list of tool names, one
\* instance for every known name whose construction succeeded, in the order
\* of the list; an unknown name and a tool whose construction raises are
\* left out, and the names after them are still processed.
C25_ToolInstances ==
    pc = "factory_done" =>
        LET in   == factory_in[1]
            kept == SelectSeq(in.tool_names,
                              LAMBDA n : n \in KnownTools /\ n \notin in.raising)
        IN  /\ Len(factory_out) = Len(kept)
            /\ \A i \in 1..Len(kept) :
                  /\ kept[i] = "arxiv_fetcher" => factory_out[i] = "ArxivTool"
                  /\ kept[i] = "gemini_analyzer" => factory_out[i] = "GeminiTool"
                  /\ kept[i] = "trend_detector" => factory_out[i] = "TrendTool"

\* A tool whose construction raised and an unknown name are followed by a
\* tool that was constructed.
C25_Witness ==
    /\ pc = "factory_done"
    /\ factory_in[1].tool_names = <<"gemini_analyzer", "unknown_tool", "trend_detector">>
    /\ factory_in[1].raising = {"gemini_analyzer"}
    /\ factory_out = <<"TrendTool">>

\* C26: between the batches of a pipeline run, every paper of the last batch
\* whose service call returned has its result in the run's collected
\* analyses, in order and after the results of the earlier batches, whatever
\* happened to the other papers of the batch; and the collected analyses are
\* as many as the results the adapter built during the run.
C26_FailureKeepsOtherAnalyses ==
    (entry = "pipeline" /\ pc = "batches" /\ tool_calls > 0) =>
        LET k == Len(results)
            n == Len(all_analyses)
        IN  /\ Titles(results) = Titles(Pick(run_papers, Answered, 1))
            /\ n >= k
            /\ SubSeq(all_analyses, n - k + 1, n) = results
            /\ n = adapter_results

\* The second batch of a run is done; in the first, full one, a paper got no
\* result, and the paper of the second batch was answered.
C26_Witness ==
    /\ entry = "pipeline" /\ pc = "batches"
    /\ tool_calls = 2
    /\ Len(papers) > batch_size
    /\ Answered # {}
    /\ Len(all_analyses) = Len(papers) - 1

\* The five artifacts of a successful run, in the order they are written.
ArtifactOrder ==
    <<"raw_papers", "analysis", "json_report", "markdown_report", "run_summary">>

\* The artifacts written so far, the error report left aside.
ArtifactsWritten == SelectSeq(written, LAMBDA a : a # "error_report")

\* C27: the artifacts of a run are written in the order raw papers, analysis
\* results, JSON report, Markdown report, run summary; the run summary is
\* written after the four others, lists exactly their four paths with status
\* success, and is written only in a run that returns success.
C27_ArtifactOrder ==
    /\ Len(ArtifactsWritten) <= Len(ArtifactOrder)
    /\ ArtifactsWritten = SubSeq(ArtifactOrder, 1, Len(ArtifactsWritten))
    /\ Written("run_summary") <=> summary # <<>>
    /\ Written("run_summary") =>
          /\ retval = "True" /\ raised = "" /\ ~Written("error_report")
          /\ summary[1].execution_summary.status = "success"
          /\ DOMAIN summary[1].generated_files
                = {"raw_papers", "analysis_data", "json_report", "markdown_report"}
          /\ {summary[1].generated_files[k] : k \in DOMAIN summary[1].generated_files}
                = {written[i] : i \in 1..4}
    /\ retval = "False" => ~Written("run_summary")

\* A run has written its summary after the four other artifacts.
C27_Witness ==
    /\ entry = "pipeline" /\ pc = "returned"
    /\ written = ArtifactOrder
    /\ Len(all_analyses) > 0

\* The tool of a pipeline run was constructed with no model: every batch
\* handed to it is answered with an error status.
ToolNeverConfigured ==
    /\ entry = "pipeline"
    /\ Written("raw_papers")
    /\ pc # "setup_gemini"
    /\ raised # "analysis"
    /\ ~gemini_model

\* The batches of the fetched papers.
BatchCount == (Len(papers) + batch_size - 1) \div batch_size

\* C28: when the tool returns an error status for every batch, the run calls
\* the tool once per batch and never the service, nothing raises but a failed
\* write of an artifact, and without one the run returns success with a
\* report in which papers_analyzed is 0, success_rate is '0.0%' when a paper
\* was fetched, every trend mapping is empty, avg_novelty_score is 0,
\* dominant_category is 'Unknown', innovation_level is 'Low' and
\* sample_papers is empty.
C28_ToolErrorEveryBatch ==
    ToolNeverConfigured =>
        /\ all_analyses = <<>>
        /\ service_calls = 0
        /\ tool_calls = IF batch_i >= Len(papers) THEN BatchCount
                        ELSE batch_i \div batch_size
                               + (IF pc \in {"run_loop", "run_return"} THEN 1 ELSE 0)
        /\ tool_calls > 0 => run_out.status = "error"
        /\ raised \in {"", "save_analysis", "json_report", "markdown_report",
                       "run_summary"}
        /\ (pc \in {"write_json", "write_markdown", "write_summary"}
               \/ (pc = "returned" /\ raised = "")) => report # <<>>
        /\ (pc = "returned" /\ raised = "") =>
              /\ retval = "True"
              /\ written = ArtifactOrder
        /\ report # <<>> =>
              /\ report[1].summary.total_papers_found = Len(papers)
              /\ report[1].summary.papers_analyzed = 0
              /\ papers # <<>> =>
                    report[1].summary.success_rate = <<"0", ".", "0", "%">>
              /\ report[1].trends.ai_categories = <<>>
              /\ report[1].trends.top_keywords = <<>>
              /\ report[1].trends.methodologies = <<>>
              /\ report[1].trends.novelty_distribution = <<>>
              /\ report[1].trends.avg_novelty_score.num = 0
              /\ report[1].insights.dominant_category = PyStr("Unknown")
              /\ report[1].insights.emerging_keywords = <<>>
              /\ report[1].insights.innovation_level = "Low"
              /\ report[1].sample_papers = <<>>

\* A run over two batches, each answered with an error, that returned success.
C28_Witness ==
    /\ ToolNeverConfigured
    /\ pc = "returned"
    /\ retval = "True"
    /\ Len(papers) > batch_size
    /\ tool_calls = 2

\* C29: analyze_batch returns one entry per input paper, in input order; a
\* paper whose service call or JSON parsing fails is represented by an
\* entry carrying an 'error' key with the paper's URL and the analysis time,
\* and the papers after it are still analysed.
C29_OneEntryPerPaper ==
    pc = "batch_done" =>
        /\ ~batch_out[1].raises
        /\ Len(batch_out[1].analyses) = Len(batch_in[1])
        /\ \A i \in 1..Len(batch_in[1]) :
              /\ batch_out[1].analyses[i].paper_url = i
              /\ {"paper_url", "analyzed_at"} \subseteq batch_out[1].analyses[i].keys
              /\ TryBlockRaises(batch_in[1][i])
                    => "error" \in batch_out[1].analyses[i].keys

\* C30: whenever the crew's kickoff returned (and the file can be written),
\* execute_crew has written the crew name, a timestamp and the result to
\* outputs/crew_results.json, has returned the kickoff result, and has
\* raised nothing.
C30_ResultSavedAndReturned ==
    (pc = "crew_done" /\ ~crew_in[1].create_raises /\ ~crew_in[1].kickoff_raises
        /\ ~crew_in[1].write_raises) =>
        /\ crew_out[1].raised = ""
        /\ crew_out[1].returned = <<crew_in[1].result>>
        /\ Len(crew_out[1].file) = 1
        /\ crew_out[1].file[1].crew_name = crew_in[1].crew_name
        /\ crew_out[1].file[1].result = crew_in[1].result.raw

====
